---- MODULE Spec2Model ----
(***************************************************************************)
(* Model of the problem6 scoreboard service: the Fastify routes of         *)
(* main.ts, the authenticateToken and rate-limit preHandlers, the          *)
(* ScoreboardController / ScoreboardService handlers, AuthService.register *)
(* and the CacheService (Redis + in-process map).  Every await of a        *)
(* handler is one step of the worker that serves the request, so requests  *)
(* interleave exactly where the event loop lets them.  Time is in seconds. *)
(***************************************************************************)
EXTENDS Integers, Sequences, FiniteSets, TLC

\* ---------------------------------------------------------------- bounds
MaxTicks == 1
MaxRateTicks == 2
ClockStep == 30
MaxStoreRequests == 2
MaxTokenRequests == 2
MaxRateRequests == 11
MaxReadRequests == 3
MaxRankRequests == 3
MaxUserRequests == 3
MaxWsRequests == 2
MaxAnnounceRequests == 2
MaxEmits == 65
MaxFailRequests == 2
MaxFrames == 3
MaxSignUps == 3
MaxDegradedRequests == 3
MaxCacheRequests == 3
MaxAsideRequests == 3
MaxAsideTicks == 2
MaxOrphanRequests == 3
MaxOutageRequests == 11
MaxTopRequests == 3

\* ------------------------------------------------------ program constants
ScoreUpdateMaxRequests == 10
ScoreUpdateWindowMs == 60000
GeneralMaxRequests == 100
GeneralWindowMs == 60000
AuthMaxRequests == 5
AuthWindowMs == 900000
CacheMaxRequests == 20
CacheWindowMs == 60000
MinIncrement == 1
MaxIncrement == 1000
ScoreboardTtl == 30
UserScoreTtl == 300
TopLimit == 10
FreshWindowSec == 300
WsOpen == 1
WsClosed == 3
BufferCap == 64

\* ------------------------------------------------------------ input sets
\* the requests the event loop has in progress at one time
Procs == {1, 2}
UserIds == {"alice", "bob", "carol"}
ActionIds == {"a1", "a2"}
InvalidDate == -1000000
EmptyString == <<>>
NoBearer == "none"

\* Date.prototype.toISOString: the text of an instant
toISOString(t) == <<"iso", t>>
\* a text that is no date
JunkDate == <<"junk", 0>>
\* new Date(text): the instant of an ISO text, Invalid Date for other text
ParseDate(s) == IF s # EmptyString /\ s[1] = "iso" THEN s[2] ELSE InvalidDate

\* Math.ceil(a / b) for positive b
CeilDiv(a, b) == (a + b - 1) \div b

\* crypto.createHash('sha256').update(text).digest('hex'), taken to be
\* collision free: the digest determines the text
Sha256(text) == <<"sha256", text>>
\* the template string `${actionId}-${scoreIncrement}-${timestamp}`
HashInput(actionId, scoreIncrement, timestamp) ==
    <<actionId, "-", scoreIncrement, "-", timestamp>>

\* ScoreboardService.generateActionHash, and the expectedHash of updateScore
generateActionHash(actionId, scoreIncrement, timestamp) ==
    Sha256(HashInput(actionId, scoreIncrement, timestamp))

\* JavaScript truthiness: a text is falsy when empty, a number when 0
TruthyText(v) == v # EmptyString
TruthyId(v) == v # ""
TruthyNumber(v) == v # 0

VARIABLES
    userTable,      \* ids of the rows of table users (username = id)
    scoreTable,     \* userId -> [score, lastUpdated], rows of table scores
    actionLog,      \* rows of table action_logs, in insertion order
    rowLock,        \* userId -> worker whose open transaction updated the row, 0 if none
    storeUp,        \* FALSE while the database cannot be reached: every query throws
    redis,          \* [sb, us, rl, kv, ss]: the key families of the shared cache
    redisUp,        \* FALSE while the Redis connection is down
    memoryCache,    \* [sb, us, kv, ss]: CacheService.memoryCache
    connections,    \* WebSocketService.connections: id -> [readyState, sendThrows, received, taken]
    now,            \* Date.now() in seconds
    pc,             \* worker -> position in the handler it runs
    req,            \* worker -> the request it serves
    loc,            \* worker -> the handler's local variables
    resp,           \* the reply sent last
    bearers,        \* userIds for which a JWT has been signed
    issued,         \* action data returned by generate-action, with the caller
    started,        \* number of requests received so far
    hist            \* history of the run, for the properties

dbVars == <<userTable, scoreTable, actionLog, rowLock, storeUp>>
cacheVars == <<redis, redisUp, memoryCache>>
procVars == <<pc, req, loc, resp>>
envVars == <<bearers, issued, started>>
vars == <<userTable, scoreTable, actionLog, rowLock, storeUp, redis, redisUp, memoryCache,
          connections, now, pc, req, loc, resp, bearers, issued, started, hist>>

NoBody == [actionId |-> "", scoreIncrement |-> 0, timestamp |-> EmptyString,
           actionHash |-> EmptyString]
\* request.user before authenticateToken ran: no property at all
NoUser == <<>>
NoReq == [route |-> "none", user |-> NoUser, ip |-> "", body |-> NoBody,
          username |-> "", password |-> "", dupAtStart |-> FALSE, acked |-> <<>>,
          params |-> [userId |-> ""], cacheDown |-> FALSE, fetched |-> 0,
          limit |-> TopLimit, logAt |-> 0]
NoLoc == [currentCount |-> 0, txScore |-> 0, txTime |-> 0, newScore |-> 0,
          lastUpdated |-> 0, rank |-> 0, rows |-> <<>>, cachedScore |-> 0,
          cacheHit |-> FALSE]
NoAnswered == [route |-> "none", userId |-> "none", actionId |-> "", complete |-> FALSE,
               dupAtStart |-> FALSE, acked |-> <<>>, params |-> [userId |-> ""],
               cacheDown |-> FALSE, limit |-> TopLimit, logAt |-> 0, logEnd |-> 0]
NoResp == [status |-> 0, code |-> "", newScore |-> 0, rank |-> 0, scoreboard |-> <<>>,
           totalUsers |-> 0, token |-> NoBody, req |-> NoAnswered, score |-> 0]

NoHist == [passes |-> <<>>, reachedTx |-> {}, rolledBack |-> {}, acked |-> <<>>,
           evicted |-> {}, detached |-> {},
           frame |-> [from |-> "", text |-> "", seq |-> 0]]

\* ------------------------------------------------------------ small helpers
Put(f, k, v) == (k :> v) @@ f
Remove(f, k) == [x \in DOMAIN f \ {k} |-> f[x]]
Has(f, k) == k \in DOMAIN f

\* obj?.name || dflt for a property that holds a non-empty text
PropOr(obj, name, dflt) == IF name \in DOMAIN obj THEN obj[name] ELSE dflt

\* ------------------------------------------------------------- CacheService
RedisHas(fam, k) == k \in DOMAIN redis[fam]
RedisSetex(fam, k, ttl, v) ==
    [redis EXCEPT ![fam] = Put(@, k, [value |-> v, exp |-> now + ttl])]
RedisDel(fam, k) == [redis EXCEPT ![fam] = Remove(@, k)]
\* keys whose time to live has run out at time t are gone
RedisExpire(t) ==
    [fam \in DOMAIN redis |->
        [k \in {x \in DOMAIN redis[fam] : redis[fam][x].exp > t} |-> redis[fam][k]]]

\* CacheService.setInMemory(key, value, ttl): ttl in milliseconds
setInMemory(fam, k, v, ttlMs) ==
    [memoryCache EXCEPT ![fam] = Put(@, k, [value |-> v, expires |-> now + (ttlMs \div 1000)])]
MemoryDelete(fam, k) == [memoryCache EXCEPT ![fam] = Remove(@, k)]

SbKey == "scoreboard:top10"

\* a getRateLimit that still answers the stored count while Redis is down
getRateLimitStored(key) ==
    IF RedisHas("rl", key) THEN redis.rl[key].value ELSE 0

\* CacheService.getRateLimit(key): the count, 0 when the key is absent or
\* Redis fails
getRateLimit(key) ==
    IF redisUp /\ RedisHas("rl", key) THEN redis.rl[key].value ELSE 0

\* CacheService.incrementRateLimit(key, ttl): MULTI { INCR; EXPIRE }
incrementRateLimit(key, ttl) ==
    IF redisUp
    THEN RedisSetex("rl", key, ttl, (IF RedisHas("rl", key) THEN redis.rl[key].value ELSE 0) + 1)
    ELSE redis

\* ------------------------------------------------------- the worker's moves
\* JavaScript truthiness of the four fields of an update body
FieldsPresent(body) ==
    /\ TruthyId(body.actionId)
    /\ TruthyNumber(body.scoreIncrement)
    /\ TruthyText(body.timestamp)
    /\ TruthyText(body.actionHash)

\* what a reply records of the request it answers: history
Answered(r) ==
    [route |-> r.route, userId |-> PropOr(r.user, "userId", NoBearer),
     actionId |-> r.body.actionId, complete |-> FieldsPresent(r.body),
     dupAtStart |-> r.dupAtStart, acked |-> r.acked, params |-> r.params,
     cacheDown |-> r.cacheDown, limit |-> r.limit, logAt |-> r.logAt,
     logEnd |-> IF r.route \in {"scoreboard", "userScore"} THEN Len(actionLog) ELSE 0]

\* reply.send(r): the request of worker p is over
Reply(p, r) ==
    /\ resp' = r @@ [req |-> Answered(req[p])] @@ NoResp
    /\ pc' = [pc EXCEPT ![p] = "idle"]
    /\ req' = [req EXCEPT ![p] = NoReq]
    /\ loc' = [loc EXCEPT ![p] = NoLoc]

\* worker p goes on to its next await with locals l
Goto(p, label, l) ==
    /\ pc' = [pc EXCEPT ![p] = label]
    /\ loc' = [loc EXCEPT ![p] = l]
    /\ UNCHANGED <<req, resp>>

\* ------------------------------------------------------- rate-limit preHandler
\* the pre-configured limiters: maxRequests, windowMs and keyGenerator
scoreUpdateKey(r) == <<"score_update", PropOr(r.user, "id", "anonymous")>>
generalKey(r) == <<"general", r.ip>>
authKey(r) == <<"auth", r.ip>>
cacheManagementKey(r) == <<"cache", PropOr(r.user, "id", "anonymous")>>

LimiterMax(name) ==
    CASE name = "scoreUpdate" -> ScoreUpdateMaxRequests
      [] name = "cacheManagement" -> CacheMaxRequests
      [] name = "auth" -> AuthMaxRequests
      [] OTHER -> GeneralMaxRequests
LimiterWindowMs(name) ==
    CASE name = "scoreUpdate" -> ScoreUpdateWindowMs
      [] name = "cacheManagement" -> CacheWindowMs
      [] name = "auth" -> AuthWindowMs
      [] OTHER -> GeneralWindowMs
LimiterKey(name, r) ==
    CASE name = "scoreUpdate" -> scoreUpdateKey(r)
      [] name = "cacheManagement" -> cacheManagementKey(r)
      [] name = "auth" -> authKey(r)
      [] OTHER -> generalKey(r)

\* the routes of main.ts: whether authenticateToken runs, and which limiter
RouteAuth(route) ==
    route \in {"update", "generate", "userScore", "cacheClear", "cacheWarm",
               "cacheStats"}
RouteLimiter(route) ==
    CASE route = "update" -> "scoreUpdate"
      [] route \in {"generate", "userScore"} -> "general"
      [] route \in {"register", "login"} -> "auth"
      [] route \in {"cacheClear", "cacheWarm", "cacheStats"} -> "cacheManagement"
      [] OTHER -> "none"
\* an update handler that goes to getTopScores and the broadcast at once
RouteEntryBroadcastFirst(route) ==
    CASE route = "update" -> "gts_get"
      [] route = "generate" -> "generate"
      [] route = "scoreboard" -> "gts_get"
      [] route = "register" -> "reg_find"
      [] route = "userScore" -> "gus_get"
      [] route = "cacheClear" -> "cc_flush"
      [] route = "cacheWarm" -> "cw_warm"
      [] route = "cacheStats" -> "cs_stats"
      [] route = "login" -> "login_find"

\* the first await of the route's handler
RouteEntry(route) ==
    CASE route = "update" -> "us_find"
      [] route = "generate" -> "generate"
      [] route = "scoreboard" -> "gts_get"
      [] route = "register" -> "reg_find"
      [] route = "userScore" -> "gus_get"
      [] route = "cacheClear" -> "cc_flush"
      [] route = "cacheWarm" -> "cw_warm"
      [] route = "cacheStats" -> "cs_stats"
      [] route = "login" -> "login_find"

\* a request of a client, before any preHandler ran
Request(route, body, username, password) ==
    [NoReq EXCEPT !.route = route, !.ip = "10.0.0.1", !.body = body,
                  !.username = username, !.password = password,
                  !.dupAtStart = \E i \in DOMAIN actionLog :
                                    actionLog[i].actionId = body.actionId,
                  !.acked = IF route \in {"scoreboard", "userScore"}
                            THEN hist.acked ELSE <<>>,
                  !.cacheDown = ~redisUp,
                  !.logAt = IF route \in {"scoreboard", "userScore"}
                            THEN Len(actionLog) ELSE 0]

\* authenticateToken: the request.user it sets from the verified JWT
authenticateToken(r, bearer) ==
    [r EXCEPT !.user = [userId |-> bearer, username |-> bearer, email |-> bearer]]

\* a request arrives and takes the first free slot; authenticateToken runs if
\* the route has it: no JWT, or one the server did not sign, is answered 401
Receive(p, bearer, r) ==
    /\ pc[p] = "idle"
    /\ \A q \in Procs : q < p => pc[q] # "idle"
    /\ started' = started + 1
    /\ IF RouteAuth(r.route) /\ bearer \notin bearers
       THEN /\ resp' = [status |-> 401,
                        code |-> IF bearer = NoBearer THEN "MISSING_TOKEN" ELSE "INVALID_TOKEN",
                        req |-> Answered(r)] @@ NoResp
            /\ UNCHANGED <<pc, req, loc>>
       ELSE /\ req' = [req EXCEPT ![p] =
                        IF RouteAuth(r.route) THEN authenticateToken(r, bearer) ELSE r]
            /\ pc' = [pc EXCEPT ![p] =
                    IF RouteLimiter(r.route) = "none" THEN RouteEntry(r.route) ELSE "rl_get"]
            /\ UNCHANGED <<loc, resp>>
    /\ UNCHANGED <<dbVars, cacheVars, connections, now, bearers, issued, hist>>

\* RateLimitMiddleware: await cacheService.getRateLimit(key), then the check
RateLimitCheck(p) ==
    /\ pc[p] = "rl_get"
    /\ LET name == RouteLimiter(req[p].route)
           currentCount == getRateLimit(LimiterKey(name, req[p]))
       IN  IF currentCount >= LimiterMax(name)
           THEN Reply(p, [status |-> 429, code |-> "Too many requests"])
           ELSE Goto(p, "rl_incr", [loc[p] EXCEPT !.currentCount = currentCount])
    /\ UNCHANGED <<dbVars, cacheVars, connections, now, envVars, hist>>

\* history: the update requests that passed the limiter, per identity and time
RecordPass(p) ==
    IF req[p].route = "update"
    THEN LET k == <<req[p].user.userId, now>>
         IN  [hist EXCEPT !.passes = Put(@, k, (IF Has(@, k) THEN @[k] ELSE 0) + 1)]
    ELSE hist

\* RateLimitMiddleware: await cacheService.incrementRateLimit(key, ttl); the
\* preHandler returns and the route's handler starts
RateLimitIncrement(p) ==
    /\ pc[p] = "rl_incr"
    /\ LET name == RouteLimiter(req[p].route)
       IN  redis' = incrementRateLimit(LimiterKey(name, req[p]),
                                       CeilDiv(LimiterWindowMs(name), 1000))
    /\ hist' = RecordPass(p)
    /\ Goto(p, RouteEntry(req[p].route), loc[p])
    /\ UNCHANGED <<dbVars, redisUp, memoryCache, connections, now, envVars>>

\* ------------------------------------------------- ScoreboardService.updateScore
\* prisma.actionLog.findUnique({ where: { actionId } }) found a row
ActionLogged(actionId) == \E i \in DOMAIN actionLog : actionLog[i].actionId = actionId

\* updateScore without its findUnique on the action id
ValidationErrorNoDuplicateCheck(body) ==
    IF body.actionHash #
            generateActionHash(body.actionId, body.scoreIncrement, body.timestamp)
    THEN "Invalid action hash"
    ELSE IF body.scoreIncrement < MinIncrement \/ body.scoreIncrement > MaxIncrement
    THEN "Score increment must be between 1 and 1000"
    ELSE ""

\* updateScore without its check of the increment's bounds
ValidationErrorNoBounds(body) ==
    IF ActionLogged(body.actionId)
    THEN "Action ID has already been processed"
    ELSE IF body.actionHash #
                generateActionHash(body.actionId, body.scoreIncrement, body.timestamp)
    THEN "Invalid action hash"
    ELSE ""

\* the message of the Error the checks before the transaction throw, "" if none
ValidationError(body) ==
    IF ActionLogged(body.actionId)
    THEN "Action ID has already been processed"
    ELSE IF body.actionHash #
                generateActionHash(body.actionId, body.scoreIncrement, body.timestamp)
    THEN "Invalid action hash"
    ELSE IF body.scoreIncrement < MinIncrement \/ body.scoreIncrement > MaxIncrement
    THEN "Score increment must be between 1 and 1000"
    ELSE ""

\* ScoreboardController.updateScore, catch block: message.includes(...) -> code
ErrorCode(message) ==
    CASE message = "Action ID has already been processed" -> "DUPLICATE_ACTION"
      [] message = "Invalid action hash" -> "INVALID_ACTION_HASH"
      [] message = "Score increment must be between 1 and 1000" -> "INVALID_SCORE_INCREMENT"
      [] OTHER -> "SCORE_UPDATE_FAILED"

\* the message of the Error a Prisma call throws when the database cannot be
\* reached
StoreError == "Can't reach database server"

\* controller entry, then updateScore up to its transaction: the
\* findUnique is the only await, the hash and bounds checks follow it; the
\* lastUpdated: new Date() of tx.score.update is evaluated when the call is
\* made, before the statement takes effect
UpdateValidate(p) ==
    /\ pc[p] = "us_find"
    /\ LET body == req[p].body
       IN  IF ~FieldsPresent(body)
           THEN Reply(p, [status |-> 400, code |-> "MISSING_FIELDS"])
           ELSE IF ~storeUp
           THEN Reply(p, [status |-> 400, code |-> ErrorCode(StoreError)])
           ELSE IF ValidationError(body) # ""
           THEN Reply(p, [status |-> 400, code |-> ErrorCode(ValidationError(body))])
           ELSE Goto(p, "tx_update", [loc[p] EXCEPT !.txTime = now])
    /\ UNCHANGED <<dbVars, cacheVars, connections, now, envVars, hist>>

\* a tx.score.upsert in the place of tx.score.update: a missing row is created
TxScoreUpsert(p) ==
    /\ pc[p] = "tx_update"
    /\ LET u == req[p].user.userId
       IN  IF ~storeUp
           THEN /\ Reply(p, [status |-> 400, code |-> ErrorCode(StoreError)])
                /\ UNCHANGED <<rowLock, hist, scoreTable>>
           ELSE /\ rowLock[u] = 0
                /\ rowLock' = [rowLock EXCEPT ![u] = p]
                /\ scoreTable' = IF Has(scoreTable, u) THEN scoreTable
                                 ELSE Put(scoreTable, u, [score |-> 0, lastUpdated |-> now])
                /\ Goto(p, "tx_create",
                        [loc[p] EXCEPT !.txScore = scoreTable'[u].score + req[p].body.scoreIncrement])
                /\ UNCHANGED hist
    /\ UNCHANGED <<userTable, actionLog, storeUp, cacheVars, connections, now, envVars>>

\* tx.score.update({ where: { userId }, data: { score: { increment }, lastUpdated } })
\* inside the transaction: the row is locked until commit or rollback, a
\* second transaction updating the same row waits; a missing row throws
TxScoreUpdate(p) ==
    /\ pc[p] = "tx_update"
    /\ LET u == req[p].user.userId
       IN  IF ~storeUp \/ ~Has(scoreTable, u)
           THEN /\ Reply(p, [status |-> 400,
                             code |-> ErrorCode(IF storeUp THEN "Record to update not found"
                                                ELSE StoreError)])
                /\ hist' = IF storeUp THEN [hist EXCEPT !.rolledBack = @ \cup {"missing"}]
                           ELSE hist
                /\ UNCHANGED rowLock
           ELSE /\ rowLock[u] = 0
                /\ rowLock' = [rowLock EXCEPT ![u] = p]
                /\ Goto(p, "tx_create",
                        [loc[p] EXCEPT !.txScore = scoreTable[u].score + req[p].body.scoreIncrement])
                /\ hist' = [hist EXCEPT !.reachedTx =
                                IF ParseDate(req[p].body.timestamp) # InvalidDate
                                THEN @ \cup {req[p].body.actionId} ELSE @]
    /\ UNCHANGED <<userTable, scoreTable, actionLog, storeUp, cacheVars, connections, now,
                   envVars>>

\* an action_logs table without the unique index on actionId
UniqueViolationNever(actionId) == FALSE

\* the unique index on action_logs.actionId rejects the insert
UniqueViolation(actionId) == ActionLogged(actionId)

\* a score update that is kept although the insert of the log row failed
RolledBackKeepsScore(p) ==
    [scoreTable EXCEPT ![req[p].user.userId] =
        [score |-> loc[p].txScore, lastUpdated |-> loc[p].txTime]]

\* a rollback that leaves the row's new score in place, not its lastUpdated
RolledBackScoreOnly(p) ==
    [scoreTable EXCEPT ![req[p].user.userId].score = loc[p].txScore]

\* the scores table after the transaction of worker p was rolled back
RolledBack(p) == scoreTable

\* a commit whose update has no where clause: every row gets the increment
CommittedEveryRow(p) ==
    [u \in DOMAIN scoreTable |->
        [score |-> scoreTable[u].score + req[p].body.scoreIncrement,
         lastUpdated |-> loc[p].txTime]]

\* the scores table after the transaction of worker p committed
Committed(p) ==
    [scoreTable EXCEPT ![req[p].user.userId] =
        [score |-> loc[p].txScore, lastUpdated |-> loc[p].txTime]]

\* the row tx.actionLog.create inserts for the request of worker p
LogRow(p) ==
    [userId |-> req[p].user.userId, actionId |-> req[p].body.actionId,
     scoreIncrement |-> req[p].body.scoreIncrement,
     actionHash |-> req[p].body.actionHash,
     timestamp |-> ParseDate(req[p].body.timestamp),
     ipAddress |-> req[p].ip, createdAt |-> now]

\* tx.actionLog.create(...) and the end of the transaction: commit, or
\* rollback when the insert throws (invalid Date, duplicate actionId)
TxLogCreate(p) ==
    /\ pc[p] = "tx_create"
    /\ IF \/ ~storeUp
          \/ ParseDate(req[p].body.timestamp) = InvalidDate
          \/ UniqueViolation(req[p].body.actionId)
       THEN /\ scoreTable' = RolledBack(p)
            /\ hist' = [hist EXCEPT !.rolledBack = @ \cup
                            {IF ~storeUp THEN "store"
                             ELSE IF ParseDate(req[p].body.timestamp) = InvalidDate
                             THEN "date" ELSE "duplicate"}]
            /\ Reply(p, [status |-> 400, code |-> ErrorCode("Invalid invocation")])
            /\ UNCHANGED actionLog
       ELSE /\ scoreTable' = Committed(p)
            /\ actionLog' = Append(actionLog, LogRow(p))
            /\ UNCHANGED hist
            /\ Goto(p, "us_rank", [loc[p] EXCEPT !.newScore = loc[p].txScore,
                                                 !.lastUpdated = loc[p].txTime])
    /\ rowLock' = [rowLock EXCEPT ![req[p].user.userId] = 0]
    /\ UNCHANGED <<userTable, storeUp, cacheVars, connections, now, envVars>>

\* prisma.score.count({ where: { OR: [ {score > s}, {score = s, lastUpdated < t} ] } })
CountAbove(s, t) ==
    Cardinality({u \in DOMAIN scoreTable :
        \/ scoreTable[u].score > s
        \/ scoreTable[u].score = s /\ scoreTable[u].lastUpdated < t})

\* updateScore after the transaction: the rank query
UpdateRank(p) ==
    /\ pc[p] = "us_rank"
    /\ IF storeUp
       THEN Goto(p, "us_inval_sb",
                 [loc[p] EXCEPT !.rank = CountAbove(loc[p].newScore, loc[p].lastUpdated) + 1])
       ELSE Reply(p, [status |-> 400, code |-> ErrorCode(StoreError)])
    /\ UNCHANGED <<dbVars, cacheVars, connections, now, envVars, hist>>

\* CacheService.invalidateScoreboard: redis.del, then memoryCache.delete; a
\* Redis error is caught before the in-process entry is deleted
invalidateScoreboard ==
    /\ redis' = IF redisUp THEN RedisDel("sb", SbKey) ELSE redis
    /\ memoryCache' = IF redisUp THEN MemoryDelete("sb", SbKey) ELSE memoryCache

\* CacheService.invalidateUserScore(userId)
invalidateUserScore(userId) ==
    /\ redis' = IF redisUp THEN RedisDel("us", userId) ELSE redis
    /\ memoryCache' = IF redisUp THEN MemoryDelete("us", userId) ELSE memoryCache

\* Number.prototype.toString and parseInt on the cached score
NumberToString(n) == <<"dec", n>>
parseInt(text) == text[2]

\* CacheService.setUserScore(userId, score, ttl = 300)
setUserScore(userId, score) ==
    /\ redis' = IF redisUp
                THEN RedisSetex("us", userId, UserScoreTtl, NumberToString(score))
                ELSE redis
    /\ memoryCache' = IF redisUp
                      THEN setInMemory("us", userId, score, UserScoreTtl * 1000)
                      ELSE memoryCache

UpdateInvalidateScoreboard(p) ==
    /\ pc[p] = "us_inval_sb"
    /\ invalidateScoreboard
    /\ Goto(p, "us_inval_us", loc[p])
    /\ UNCHANGED <<dbVars, redisUp, connections, now, envVars, hist>>

UpdateInvalidateUserScore(p) ==
    /\ pc[p] = "us_inval_us"
    /\ invalidateUserScore(req[p].user.userId)
    /\ Goto(p, "us_set_us", loc[p])
    /\ UNCHANGED <<dbVars, redisUp, connections, now, envVars, hist>>

\* setUserScore, then updateScore returns and the controller calls
\* getTopScores(10)
UpdateSetUserScore(p) ==
    /\ pc[p] = "us_set_us"
    /\ setUserScore(req[p].user.userId, loc[p].newScore)
    /\ Goto(p, "gts_get", loc[p])
    /\ UNCHANGED <<dbVars, redisUp, connections, now, envVars, hist>>

\* ------------------------------------------------------------ WebSocketService
\* a socket as addConnection stores it: open, nothing sent to it yet; taken
\* counts the messages its client has read from it
NewSocket == [readyState |-> WsOpen, sendThrows |-> FALSE, received |-> <<>>, taken |-> 0]

\* the message the /ws route sends to a new connection c
Greeting(c) ==
    [type |-> "connection_status", scoreboard |-> <<>>, totalUsers |-> 0,
     connectionId |-> c, error |-> "", status |-> "connected", userId |-> ""]

\* the connections connection.send(messageString) is called on and returns
Sendable == {c \in DOMAIN connections :
                connections[c].readyState = WsOpen /\ ~connections[c].sendThrows}

\* the connections of cs whose socket is still open: removed from the map,
\* they keep the 'message' handler the /ws route attached
StillOpen(cs) == {c \in cs : connections[c].readyState = WsOpen}

\* history: the connections a broadcast removed, and the sockets among them
\* that are still open
RecordEvictions(h) ==
    [h EXCEPT !.evicted = @ \cup (DOMAIN connections \ Sendable),
              !.detached = @ \cup StillOpen(DOMAIN connections \ Sendable)]

\* a broadcast that puts the message in front of the ones sent before
broadcastNewestFirst(message) ==
    [c \in Sendable |-> [connections[c] EXCEPT !.received = <<message>> \o @]]

\* a broadcast that stops at the first connection it cannot send to
broadcastUntilFailure(message) ==
    IF Sendable = DOMAIN connections
    THEN [c \in Sendable |-> [connections[c] EXCEPT !.received = Append(@, message)]]
    ELSE connections

\* WebSocketService.broadcast: send to every open connection; a connection
\* that is not open, or whose send throws, is removed; the loop goes on
broadcast(message) ==
    [c \in Sendable |-> [connections[c] EXCEPT !.received = Append(@, message)]]

\* WebSocketService.broadcastScoreboardUpdate(scoreboard)
broadcastScoreboardUpdate(scoreboard) ==
    broadcast([type |-> "scoreboard_update", scoreboard |-> scoreboard,
               totalUsers |-> Len(scoreboard), connectionId |-> "", error |-> "",
               status |-> "", userId |-> ""])

\* WebSocketService.broadcastConnectionStatus(status, userId); an undefined
\* userId is left out by JSON.stringify
broadcastConnectionStatus(status, userId) ==
    broadcast([type |-> "connection_status", scoreboard |-> <<>>, totalUsers |-> 0,
               connectionId |-> "", error |-> "", status |-> status, userId |-> userId])

\* WebSocketService.broadcastError(error)
broadcastError(error) ==
    broadcast([type |-> "error", scoreboard |-> <<>>, totalUsers |-> 0,
               connectionId |-> "", error |-> error, status |-> "", userId |-> ""])

\* JSON.parse of the frames the clients send: ok is FALSE when it throws
\* SyntaxError; isNull tells the value null, whose .userId throws TypeError
JSONParse(text) ==
    CASE text = "{\"userId\":\"alice\"}" -> [ok |-> TRUE, isNull |-> FALSE, userId |-> "alice"]
      [] text = "{}" -> [ok |-> TRUE, isNull |-> FALSE, userId |-> ""]
      [] text = "null" -> [ok |-> TRUE, isNull |-> TRUE, userId |-> ""]
      [] OTHER -> [ok |-> FALSE, isNull |-> FALSE, userId |-> ""]

\* the 'message' handler of the /ws route: JSON.parse, then
\* broadcastConnectionStatus('connected', data.userId); whatever is thrown is
\* caught and answered with broadcastError('Invalid message format'); the
\* handler stays attached to an open socket that was removed from the map
WsMessage(c, text) ==
    /\ \/ c \in DOMAIN connections /\ connections[c].readyState = WsOpen
       \/ c \in hist.detached
    /\ LET data == JSONParse(text)
       IN  connections' = IF data.ok /\ ~data.isNull
                          THEN broadcastConnectionStatus("connected", data.userId)
                          ELSE broadcastError("Invalid message format")
    /\ started' = started + 1
    /\ hist' = [RecordEvictions(hist) EXCEPT
                    !.frame = [from |-> c, text |-> text, seq |-> started + 1]]
    /\ UNCHANGED <<dbVars, cacheVars, now, procVars, bearers, issued>>

\* a /ws route that adds the connection and sends nothing to it
WsConnectSilent(c) ==
    /\ c \notin DOMAIN connections \cup hist.detached
    /\ connections' = Put(connections, c, NewSocket)
    /\ UNCHANGED <<dbVars, cacheVars, now, procVars, envVars, hist>>

\* the /ws route: a client connects; addConnection, then the
\* connection_status message is sent to its socket
WsConnect(c) ==
    /\ c \notin DOMAIN connections \cup hist.detached
    /\ connections' = Put(connections, c, [NewSocket EXCEPT !.received = <<Greeting(c)>>])
    /\ UNCHANGED <<dbVars, cacheVars, now, procVars, envVars, hist>>

\* the socket of c closes; its 'close' event has not been handled yet
WsClose(c) ==
    /\ c \in DOMAIN connections
    /\ connections[c].readyState = WsOpen
    /\ connections' = [connections EXCEPT ![c].readyState = WsClosed]
    /\ UNCHANGED <<dbVars, cacheVars, now, procVars, envVars, hist>>

\* the socket of c breaks: send throws from now on; its 'error' event has not
\* been handled yet
WsBreak(c) ==
    /\ c \in DOMAIN connections
    /\ connections[c].readyState = WsOpen
    /\ ~connections[c].sendThrows
    /\ connections' = [connections EXCEPT ![c].sendThrows = TRUE]
    /\ UNCHANGED <<dbVars, cacheVars, now, procVars, envVars, hist>>

\* a removeConnection that drops every connection
removeConnectionAll(connectionId) == <<>>

\* WebSocketService.removeConnection(connectionId): Map.delete
removeConnection(connectionId) == Remove(connections, connectionId)

\* the handlers of 'close' and 'error': removeConnection(connectionId)
WsEvent(c) ==
    /\ c \in DOMAIN connections
    /\ connections[c].readyState = WsClosed \/ connections[c].sendThrows
    /\ connections' = removeConnection(c)
    /\ hist' = [hist EXCEPT !.detached = @ \cup StillOpen({c})]
    /\ UNCHANGED <<dbVars, cacheVars, now, procVars, envVars>>

\* the 'close' or 'error' event of a connection that is no longer in the map:
\* a broadcast removed it, or 'close' follows an 'error' that was handled
WsEventAgain(c) ==
    /\ c \notin DOMAIN connections
    /\ connections' = removeConnection(c)
    /\ started' = started + 1
    /\ UNCHANGED <<dbVars, cacheVars, now, procVars, bearers, issued, hist>>

\* ------------------------------------------------ ScoreboardService.getTopScores
\* an order by score alone
BeforeByScore(a, b) == scoreTable[a].score >= scoreTable[b].score

\* row a may come before row b under orderBy [score desc, lastUpdated asc]
Before(a, b) ==
    \/ scoreTable[a].score > scoreTable[b].score
    \/ scoreTable[a].score = scoreTable[b].score
         /\ scoreTable[a].lastUpdated <= scoreTable[b].lastUpdated

\* findMany({ take: limit, orderBy: [score desc, lastUpdated asc] }): the
\* orders the database may return (rows equal in both keys come in any order)
RECURSIVE SortedOrders(_)
SortedOrders(rows) ==
    IF rows = {} THEN {<<>>}
    ELSE UNION {{<<first>> \o rest : rest \in SortedOrders(rows \ {first})} :
                    first \in {a \in rows : \A b \in rows : Before(a, b)}}

OrderedUserIds == SortedOrders(DOMAIN scoreTable)

Take(s, n) == IF Len(s) <= n THEN s ELSE SubSeq(s, 1, n)

\* the entries getTopScores builds from the rows: rank is index + 1
Entries(ids) ==
    [i \in DOMAIN ids |->
        [rank |-> i, userId |-> ids[i], username |-> ids[i],
         score |-> scoreTable[ids[i]].score,
         lastUpdated |-> scoreTable[ids[i]].lastUpdated]]

\* what is written to the cache (lastUpdated as ISO text) and read back
ToCached(entries) ==
    [i \in DOMAIN entries |-> [entries[i] EXCEPT !.lastUpdated = toISOString(@)]]
FromCached(cached) ==
    [i \in DOMAIN cached |-> [cached[i] EXCEPT !.lastUpdated = ParseDate(@)]]

\* CacheService.setScoreboard(scoreboard, ttl = 30)
setScoreboard(cacheData) ==
    /\ redis' = IF redisUp THEN RedisSetex("sb", SbKey, ScoreboardTtl, cacheData) ELSE redis
    /\ memoryCache' = IF redisUp
                      THEN setInMemory("sb", SbKey, cacheData, ScoreboardTtl * 1000)
                      ELSE memoryCache

\* history: the score the reply to an update told its client
RecordAck(p) ==
    [hist EXCEPT !.acked = Put(@, req[p].user.userId, loc[p].newScore)]

\* getTopScores(10) returned scoreboard to the handler of worker p
Returned(p, scoreboard) ==
    CASE req[p].route = "update" ->
            /\ connections' = broadcastScoreboardUpdate(scoreboard)
            /\ Reply(p, [status |-> 200, code |-> "OK", newScore |-> loc[p].newScore,
                         rank |-> loc[p].rank])
            /\ hist' = RecordEvictions(RecordAck(p))
      [] req[p].route = "register" ->
            /\ connections' = broadcastScoreboardUpdate(scoreboard)
            /\ pc' = [pc EXCEPT ![p] = "idle"]
            /\ req' = [req EXCEPT ![p] = NoReq]
            /\ loc' = [loc EXCEPT ![p] = NoLoc]
            /\ hist' = RecordEvictions(hist)
            /\ UNCHANGED resp
      [] req[p].route = "topScores" ->
            /\ Reply(p, [status |-> 200, code |-> "resolved", scoreboard |-> scoreboard])
            /\ UNCHANGED <<connections, hist>>
      [] OTHER ->
            /\ Goto(p, "gs_total", [loc[p] EXCEPT !.rows = scoreboard])
            /\ UNCHANGED <<connections, hist>>

\* a Prisma call outside updateScore throws because the database cannot be
\* reached: the catch block of the route's controller answers; in the
\* setImmediate callback of the register route the error is only logged
Thrown(p) ==
    CASE req[p].route = "update" ->
            Reply(p, [status |-> 400, code |-> ErrorCode(StoreError)])
      [] req[p].route = "scoreboard" ->
            Reply(p, [status |-> 500, code |-> "SCOREBOARD_FETCH_FAILED"])
      [] req[p].route = "userScore" ->
            Reply(p, [status |-> 500, code |-> "USER_SCORE_FETCH_FAILED"])
      [] req[p].route = "register" /\ pc[p] \in {"reg_find", "reg_tx"} ->
            Reply(p, [status |-> 400, code |-> "REGISTRATION_FAILED"])
      [] OTHER ->
            /\ pc' = [pc EXCEPT ![p] = "idle"]
            /\ req' = [req EXCEPT ![p] = NoReq]
            /\ loc' = [loc EXCEPT ![p] = NoLoc]
            /\ UNCHANGED resp

\* a getTopScores that goes through the cache whatever the limit
UsesCacheAlways(limit) == TRUE

\* if (limit === 10): the cache is read and written for the top 10 only
UsesCache(limit) == limit = TopLimit

\* a caller's getTopScores(limit) up to its first await
GetTopScoresCall(p, limit) ==
    /\ pc[p] = "idle"
    /\ \A q \in Procs : q < p => pc[q] # "idle"
    /\ started' = started + 1
    /\ req' = [req EXCEPT ![p] = [NoReq EXCEPT !.route = "topScores", !.limit = limit,
                                               !.cacheDown = ~redisUp]]
    /\ pc' = [pc EXCEPT ![p] = IF UsesCache(limit) THEN "gts_get" ELSE "gts_db"]
    /\ UNCHANGED <<dbVars, cacheVars, connections, now, loc, resp, bearers, issued, hist>>

\* getTopScores(10): await cacheService.getScoreboard(); a hit is returned
GetTopScoresCached(p) ==
    /\ pc[p] = "gts_get"
    /\ IF redisUp /\ RedisHas("sb", SbKey)
       THEN Returned(p, FromCached(redis.sb[SbKey].value))
       ELSE /\ Goto(p, "gts_db", loc[p])
            /\ UNCHANGED <<connections, hist>>
    /\ UNCHANGED <<dbVars, cacheVars, now, envVars>>

\* getTopScores(limit): await prisma.score.findMany({ take: limit, ... });
\* with a limit other than 10 the result is returned at once
GetTopScoresQuery(p) ==
    /\ pc[p] = "gts_db"
    /\ IF storeUp
       THEN \E ids \in OrderedUserIds :
              LET result == Entries(Take(ids, req[p].limit))
              IN  IF UsesCache(req[p].limit)
                  THEN Goto(p, "gts_set", [loc[p] EXCEPT !.rows = result])
                  ELSE Returned(p, result)
       ELSE Thrown(p)
    /\ UNCHANGED <<dbVars, cacheVars, connections, now, envVars, hist>>

\* getTopScores(10): await cacheService.setScoreboard(cacheData); return result
GetTopScoresStore(p) ==
    /\ pc[p] = "gts_set"
    /\ setScoreboard(ToCached(loc[p].rows))
    /\ Returned(p, loc[p].rows)
    /\ UNCHANGED <<dbVars, redisUp, now, envVars>>

\* ScoreboardController.getScoreboard: await getTotalUsers(), reply
GetScoreboardReply(p) ==
    /\ pc[p] = "gs_total"
    /\ IF storeUp
       THEN Reply(p, [status |-> 200, code |-> "OK", scoreboard |-> loc[p].rows,
                      totalUsers |-> Cardinality(userTable)])
       ELSE Thrown(p)
    /\ UNCHANGED <<dbVars, cacheVars, connections, now, envVars, hist>>

\* ------------------------------------------------ ScoreboardService.getUserScore
\* a getUserScore that answers from what Redis held when it went down
UserScoreCachedStale(userId) == RedisHas("us", userId)

\* CacheService.getUserScore(userId): parseInt of the cached text, null when
\* the key is absent or Redis fails
UserScoreCached(userId) == redisUp /\ RedisHas("us", userId)

\* prisma.score.count on the cache-hit path: rows with a greater score, or the
\* same score and lastUpdated before t, the new Date() evaluated when the
\* count was called
CountAboveNow(s, t) == CountAbove(s, t)

\* the rank of the cache-hit path computed as on the cache-miss path, from
\* the row's own lastUpdated
CountAboveOwn(s, userId) == CountAbove(s, scoreTable[userId].lastUpdated)

\* getUserScore: await cacheService.getUserScore(userId)
GetUserScoreCached(p) ==
    /\ pc[p] = "gus_get"
    /\ LET userId == req[p].params.userId
       IN  IF UserScoreCached(userId)
           THEN Goto(p, "gus_user", [loc[p] EXCEPT !.cacheHit = TRUE,
                                        !.cachedScore = parseInt(redis.us[userId].value)])
           ELSE Goto(p, "gus_find", loc[p])
    /\ UNCHANGED <<dbVars, cacheVars, connections, now, envVars, hist>>

\* cache hit: await prisma.user.findUnique; no user, the controller answers 404
GetUserScoreUser(p) ==
    /\ pc[p] = "gus_user"
    /\ IF ~storeUp
       THEN Thrown(p)
       ELSE IF req[p].params.userId \in userTable
       THEN Goto(p, "gus_rank_hit", [loc[p] EXCEPT !.lastUpdated = now])
       ELSE Reply(p, [status |-> 404, code |-> "USER_NOT_FOUND"])
    /\ UNCHANGED <<dbVars, cacheVars, connections, now, envVars, hist>>

\* cache hit: await prisma.score.count(...) + 1, with the cached score
GetUserScoreRankHit(p) ==
    /\ pc[p] = "gus_rank_hit"
    /\ IF storeUp
       THEN Goto(p, "gus_total", [loc[p] EXCEPT !.newScore = loc[p].cachedScore,
                                      !.rank = CountAboveNow(loc[p].cachedScore, loc[p].lastUpdated) + 1])
       ELSE Thrown(p)
    /\ UNCHANGED <<dbVars, cacheVars, connections, now, envVars, hist>>

\* cache miss: await prisma.score.findUnique({ where: { userId } })
GetUserScoreFind(p) ==
    /\ pc[p] = "gus_find"
    /\ LET userId == req[p].params.userId
       IN  IF ~storeUp
           THEN Thrown(p)
           ELSE IF Has(scoreTable, userId)
           THEN Goto(p, "gus_rank", [loc[p] EXCEPT !.newScore = scoreTable[userId].score,
                                        !.lastUpdated = scoreTable[userId].lastUpdated])
           ELSE Reply(p, [status |-> 404, code |-> "USER_NOT_FOUND"])
    /\ UNCHANGED <<dbVars, cacheVars, connections, now, envVars, hist>>

\* cache miss: await prisma.score.count(...) + 1, with the row read before
GetUserScoreRank(p) ==
    /\ pc[p] = "gus_rank"
    /\ IF storeUp
       THEN Goto(p, "gus_total",
                 [loc[p] EXCEPT !.rank = CountAbove(loc[p].newScore, loc[p].lastUpdated) + 1])
       ELSE Thrown(p)
    /\ UNCHANGED <<dbVars, cacheVars, connections, now, envVars, hist>>

\* the reply of ScoreboardController.getUserScore
UserScoreReply(p, totalUsers) ==
    Reply(p, [status |-> 200, code |-> "OK", score |-> loc[p].newScore,
              rank |-> loc[p].rank, totalUsers |-> totalUsers])

\* await this.getTotalUsers(); on the cache-hit path getUserScore returns
GetUserScoreTotal(p) ==
    /\ pc[p] = "gus_total"
    /\ IF ~storeUp
       THEN Thrown(p)
       ELSE IF loc[p].cacheHit
       THEN UserScoreReply(p, Cardinality(userTable))
       ELSE Goto(p, "gus_set", [loc[p] EXCEPT !.currentCount = Cardinality(userTable)])
    /\ UNCHANGED <<dbVars, cacheVars, connections, now, envVars, hist>>

\* cache miss: await cacheService.setUserScore(userId, score.score); return
GetUserScoreStore(p) ==
    /\ pc[p] = "gus_set"
    /\ setUserScore(req[p].params.userId, loc[p].newScore)
    /\ UserScoreReply(p, loc[p].currentCount)
    /\ UNCHANGED <<dbVars, redisUp, connections, now, envVars, hist>>

\* --------------------------------- ScoreboardController.generateActionData
\* ScoreboardService.generateActionId(): 16 hex digits of a random UUID, taken
\* to differ from every id seen so far
FreshActionIds ==
    {a \in ActionIds : ~ActionLogged(a) /\ \A t \in issued : t.token.actionId # a}

GenerateActionData(p) ==
    /\ pc[p] = "generate"
    /\ LET scoreIncrement == req[p].body.scoreIncrement
       IN  IF \/ ~TruthyNumber(scoreIncrement)
              \/ scoreIncrement < MinIncrement
              \/ scoreIncrement > MaxIncrement
           THEN /\ Reply(p, [status |-> 400, code |-> "INVALID_SCORE_INCREMENT"])
                /\ UNCHANGED issued
           ELSE \E actionId \in FreshActionIds :
                  LET timestamp == toISOString(now)
                      token == [actionId |-> actionId,
                                scoreIncrement |-> scoreIncrement,
                                timestamp |-> timestamp,
                                actionHash |-> generateActionHash(actionId, scoreIncrement,
                                                                  timestamp)]
                  IN  /\ Reply(p, [status |-> 200, code |-> "OK", token |-> token])
                      /\ issued' = issued \cup {[token |-> token,
                                                 userId |-> req[p].user.userId]}
    /\ UNCHANGED <<dbVars, cacheVars, connections, now, bearers, started, hist>>

\* ------------------------------------ AuthController.register / AuthService
\* controller checks, then AuthService.register: await prisma.user.findFirst
RegisterFind(p) ==
    /\ pc[p] = "reg_find"
    /\ IF ~TruthyId(req[p].username) \/ ~TruthyId(req[p].password)
       THEN Reply(p, [status |-> 400, code |-> "MISSING_FIELDS"])
       ELSE IF req[p].password = "short"
       THEN Reply(p, [status |-> 400, code |-> "WEAK_PASSWORD"])
       ELSE IF ~storeUp
       THEN Thrown(p)
       ELSE IF req[p].username \in userTable
       THEN Reply(p, [status |-> 400, code |-> "REGISTRATION_FAILED"])
       ELSE Goto(p, "reg_tx", loc[p])
    /\ UNCHANGED <<dbVars, cacheVars, connections, now, envVars, hist>>

\* The repository holds two copies of AuthService.register: the one of
\* src/unnamed/part_010 creates the user and the score row in one
\* transaction, the one of services/AuthService.ts creates them one after the
\* other. A registration runs either, in every specification with
\* registrations.
\* the transaction of AuthService.register, first await: tx.user.create; a
\* username taken meanwhile violates the unique index, and the insert waits
\* while an open transaction holds an uncommitted row with the username
RegisterTxUser(p) ==
    /\ pc[p] = "reg_tx"
    /\ \A q \in Procs \ {p} :
          ~(pc[q] = "reg_tx_score" /\ req[q].username = req[p].username)
    /\ IF ~storeUp \/ req[p].username \in userTable
       THEN Reply(p, [status |-> 400, code |-> "REGISTRATION_FAILED"])
       ELSE Goto(p, "reg_tx_score", loc[p])
    /\ UNCHANGED <<dbVars, cacheVars, connections, now, envVars, hist>>

\* second await: tx.score.create; when the callback returns the transaction
\* commits the user row and the score row together
RegisterTransaction(p) ==
    /\ pc[p] = "reg_tx_score"
    /\ IF ~storeUp
       THEN /\ Reply(p, [status |-> 400, code |-> "REGISTRATION_FAILED"])
            /\ UNCHANGED <<userTable, scoreTable>>
       ELSE /\ userTable' = userTable \cup {req[p].username}
            /\ scoreTable' = Put(scoreTable, req[p].username,
                                 [score |-> 0, lastUpdated |-> now])
            /\ Goto(p, "reg_inval", loc[p])
    /\ UNCHANGED <<actionLog, rowLock, storeUp, cacheVars, connections, now, envVars, hist>>

\* AuthService.register of services/AuthService.ts, which has no transaction:
\* await prisma.user.create(...); the insert waits, like the one of a
\* transaction, while an open transaction holds an uncommitted row with the
\* username
RegisterCreateUser(p) ==
    /\ pc[p] = "reg_tx"
    /\ \A q \in Procs \ {p} :
          ~(pc[q] = "reg_tx_score" /\ req[q].username = req[p].username)
    /\ IF ~storeUp \/ req[p].username \in userTable
       THEN /\ Reply(p, [status |-> 400, code |-> "REGISTRATION_FAILED"])
            /\ UNCHANGED userTable
       ELSE /\ userTable' = userTable \cup {req[p].username}
            /\ Goto(p, "reg_score", loc[p])
    /\ UNCHANGED <<scoreTable, actionLog, rowLock, storeUp, cacheVars, connections, now,
                   envVars, hist>>

\* then await prisma.score.create({ data: { userId: user.id, score: 0 } });
\* scores.userId is unique
RegisterCreateScore(p) ==
    /\ pc[p] = "reg_score"
    /\ IF ~storeUp \/ Has(scoreTable, req[p].username)
       THEN /\ Reply(p, [status |-> 400, code |-> "REGISTRATION_FAILED"])
            /\ UNCHANGED scoreTable
       ELSE /\ scoreTable' = Put(scoreTable, req[p].username,
                                 [score |-> 0, lastUpdated |-> now])
            /\ Goto(p, "reg_inval", loc[p])
    /\ UNCHANGED <<userTable, actionLog, rowLock, storeUp, cacheVars, connections, now,
                   envVars, hist>>

\* jwt.sign, await invalidateScoreboard(), reply 201; the setImmediate
\* callback then calls getTopScores(10) and broadcasts
RegisterReply(p) ==
    /\ pc[p] = "reg_inval"
    /\ invalidateScoreboard
    /\ bearers' = bearers \cup {req[p].username}
    /\ resp' = [status |-> 201, code |-> "OK", req |-> Answered(req[p])] @@ NoResp
    /\ pc' = [pc EXCEPT ![p] = "gts_get"]
    /\ UNCHANGED <<dbVars, redisUp, connections, now, req, loc, issued, started, hist>>

\* -------------------------------------- AuthController.login / AuthService
\* controller check, then AuthService.login: await prisma.user.findUnique;
\* whatever is thrown is answered 401 LOGIN_FAILED
LoginFind(p) ==
    /\ pc[p] = "login_find"
    /\ IF ~TruthyId(req[p].username) \/ ~TruthyId(req[p].password)
       THEN Reply(p, [status |-> 400, code |-> "MISSING_FIELDS"])
       ELSE IF ~storeUp \/ req[p].username \notin userTable
       THEN Reply(p, [status |-> 401, code |-> "LOGIN_FAILED"])
       ELSE Goto(p, "login_compare", loc[p])
    /\ UNCHANGED <<dbVars, cacheVars, connections, now, envVars, hist>>

\* await bcrypt.compare(password, user.password): every user of the model
\* registered with the password "secret"; then jwt.sign and the reply
LoginCompare(p) ==
    /\ pc[p] = "login_compare"
    /\ IF req[p].password # "secret"
       THEN /\ Reply(p, [status |-> 401, code |-> "LOGIN_FAILED"])
            /\ UNCHANGED bearers
       ELSE /\ bearers' = bearers \cup {req[p].username}
            /\ Reply(p, [status |-> 200, code |-> "OK"])
    /\ UNCHANGED <<dbVars, cacheVars, connections, now, issued, started, hist>>

\* ------------------------------------------- the cache management routes
\* CacheService.invalidateAll: redis.flushall, then memoryCache.clear; a Redis
\* error is caught before the in-process entries are cleared
invalidateAll ==
    /\ redis' = IF redisUp THEN [fam \in DOMAIN redis |-> <<>>] ELSE redis
    /\ memoryCache' = IF redisUp THEN [fam \in DOMAIN memoryCache |-> <<>>]
                      ELSE memoryCache

\* DELETE /api/cache/clear: await cacheService.invalidateAll(), reply 200
CacheClear(p) ==
    /\ pc[p] = "cc_flush"
    /\ invalidateAll
    /\ Reply(p, [status |-> 200, code |-> "OK"])
    /\ UNCHANGED <<dbVars, redisUp, connections, now, envVars, hist>>

\* POST /api/cache/warm: cacheService.warmCache() caches nothing, reply 200
CacheWarm(p) ==
    /\ pc[p] = "cw_warm"
    /\ Reply(p, [status |-> 200, code |-> "OK"])
    /\ UNCHANGED <<dbVars, cacheVars, connections, now, envVars, hist>>

\* GET /api/cache/stats: await cacheService.getCacheStats(), which reads
\* redis.info and the hit counters, catches a Redis error and answers
\* 'disconnected'; nothing is stored, reply 200
CacheStats(p) ==
    /\ pc[p] = "cs_stats"
    /\ Reply(p, [status |-> 200, code |-> "OK"])
    /\ UNCHANGED <<dbVars, cacheVars, connections, now, envVars, hist>>

\* ------------------------------------------------------------------ time
\* history: the passes that are still within the score-update window at time t
RecentPasses(t) ==
    [k \in {x \in DOMAIN hist.passes : x[2] > t - CeilDiv(ScoreUpdateWindowMs, 1000)} |->
        hist.passes[k]]

\* the clock advances; Redis drops the keys whose time to live has run out
TickUpTo(maxTicks) ==
    /\ now < maxTicks * ClockStep
    /\ now' = now + ClockStep
    /\ redis' = RedisExpire(now')
    /\ hist' = [hist EXCEPT !.passes = RecentPasses(now')]
    /\ UNCHANGED <<dbVars, redisUp, memoryCache, connections, procVars, envVars>>

Tick == TickUpTo(MaxTicks)

\* ------------------------------------------------------------- the clients
\* the bodies a client can send to /api/scoreboard/update: it knows the
\* action data generate-action returned, and it can fill in the four fields
\* itself, computing the SHA-256 of the other three
StaleTimestamp == toISOString(now - FreshWindowSec - 1)
SignedBody(a, i, t) ==
    [actionId |-> a, scoreIncrement |-> i, timestamp |-> t,
     actionHash |-> generateActionHash(a, i, t)]
IssuedBodies == {t.token : t \in issued}

\* retries and replays of one action, a second action, a text that is no
\* date, and a body with a field missing
ReplayBodies ==
    {SignedBody("a1", 1, toISOString(0)),
     SignedBody("a1", MaxIncrement, toISOString(0)),
     SignedBody("a2", 1, toISOString(0)),
     SignedBody("a1", 1, JunkDate),
     [SignedBody("a1", 1, toISOString(0)) EXCEPT !.scoreIncrement = 0]}

\* bodies made up by the client: a fresh and a stale timestamp, increments
\* out of bounds, a hash of other values
ForgedBodies ==
    {SignedBody("a1", 1, toISOString(now)),
     SignedBody("a1", MaxIncrement, StaleTimestamp),
     SignedBody("a1", MinIncrement - 2, toISOString(now)),
     SignedBody("a1", MaxIncrement + 1, toISOString(now)),
     [SignedBody("a1", 1, toISOString(now)) EXCEPT !.scoreIncrement = MaxIncrement]}

\* an update with a JWT of a registered user, or without a valid one
ClientReplay(p) ==
    /\ started < MaxStoreRequests
    /\ \/ \E bearer \in bearers, body \in ReplayBodies :
             Receive(p, bearer, Request("update", body, "", ""))
       \/ \E bearer \in {NoBearer, "forged"} :
             Receive(p, bearer, Request("update", SignedBody("a1", 1, toISOString(0)), "", ""))

ClientForge(p) ==
    /\ started < MaxTokenRequests
    /\ \E bearer \in bearers, body \in ForgedBodies \cup IssuedBodies :
          Receive(p, bearer, Request("update", body, "", ""))

ClientGenerate(p) ==
    /\ started < MaxTokenRequests
    /\ FreshActionIds # {}
    /\ \E bearer \in bearers, i \in {0, 1, MaxIncrement + 1} :
          Receive(p, bearer, Request("generate", [NoBody EXCEPT !.scoreIncrement = i], "", ""))

ClientRegister(p) ==
    /\ started < MaxTokenRequests
    /\ \E r \in {<<"carol", "secret">>, <<"carol", "short">>, <<"alice", "secret">>} :
          Receive(p, NoBearer, Request("register", NoBody, r[1], r[2]))

\* --------------------------------------------------------- specifications
\* the steps of the update route, the same in every specification
UpdateSteps(p) ==
    \/ RateLimitCheck(p)
    \/ RateLimitIncrement(p)
    \/ UpdateValidate(p)
    \/ TxScoreUpdate(p)
    \/ TxLogCreate(p)
    \/ UpdateRank(p)
    \/ UpdateInvalidateScoreboard(p)
    \/ UpdateInvalidateUserScore(p)
    \/ UpdateSetUserScore(p)
    \/ GetTopScoresCached(p)
    \/ GetTopScoresQuery(p)
    \/ GetTopScoresStore(p)

\* the state after the users in registered have registered at time 0 and the
\* broadcasts of their registrations are over
InitRegistered(registered) ==
    /\ userTable = registered
    /\ scoreTable = [u \in registered |-> [score |-> 0, lastUpdated |-> 0]]
    /\ actionLog = <<>>
    /\ rowLock = [u \in UserIds |-> 0]
    /\ redis = [sb |-> <<>>, us |-> <<>>, rl |-> <<>>, kv |-> <<>>, ss |-> <<>>]
    /\ redisUp = TRUE
    /\ storeUp = TRUE
    /\ memoryCache = [sb |-> <<>>, us |-> <<>>, kv |-> <<>>, ss |-> <<>>]
    /\ connections = <<>>
    /\ now = 0
    /\ pc = [p \in Procs |-> "idle"]
    /\ req = [p \in Procs |-> NoReq]
    /\ loc = [p \in Procs |-> NoLoc]
    /\ resp = NoResp
    /\ bearers = registered
    /\ issued = {}
    /\ started = 0
    /\ hist = NoHist

Init == InitRegistered({"alice", "bob"})

\* concurrent updates, retries and replays
Next ==
    \/ \E p \in Procs : ClientReplay(p)
    \/ \E p \in Procs : UpdateSteps(p)

Spec == Init /\ [][Next]_vars

\* registration, generate-action, and updates with issued and made-up bodies
NextToken ==
    \/ \E p \in Procs : ClientRegister(p)
    \/ \E p \in Procs : ClientGenerate(p)
    \/ \E p \in Procs : ClientForge(p)
    \/ \E p \in Procs : RegisterFind(p)
    \/ \E p \in Procs : RegisterTxUser(p)
    \/ \E p \in Procs : RegisterTransaction(p)
    \/ \E p \in Procs : RegisterCreateUser(p)
    \/ \E p \in Procs : RegisterCreateScore(p)
    \/ \E p \in Procs : RegisterReply(p)
    \/ \E p \in Procs : GenerateActionData(p)
    \/ \E p \in Procs : UpdateSteps(p)

SpecToken == Init /\ [][NextToken]_vars

\* many update requests of two identities against the score-update limiter;
\* their bodies are empty, so each is answered as soon as the limiter let it by
ClientBurst(p) ==
    /\ started < MaxRateRequests
    /\ \E bearer \in bearers : Receive(p, bearer, Request("update", NoBody, "", ""))

TickRate == TickUpTo(MaxRateTicks)

NextRate ==
    \/ \E p \in Procs : ClientBurst(p)
    \/ \E p \in Procs : RateLimitCheck(p)
    \/ \E p \in Procs : RateLimitIncrement(p)
    \/ \E p \in Procs : UpdateValidate(p)
    \/ TickRate

SpecRate == Init /\ [][NextRate]_vars

\* update requests of one identity against the limiter, next to requests to
\* the cache management routes
ClientCache(p) ==
    /\ started < MaxCacheRequests
    /\ \E bearer \in {"alice", NoBearer}, route \in {"update", "cacheClear", "cacheWarm", "cacheStats"} :
          Receive(p, bearer, Request(route, NoBody, "", ""))

NextCache ==
    \/ \E p \in Procs : ClientCache(p)
    \/ \E p \in Procs : RateLimitCheck(p)
    \/ \E p \in Procs : RateLimitIncrement(p)
    \/ \E p \in Procs : UpdateValidate(p)
    \/ \E p \in Procs : CacheClear(p)
    \/ \E p \in Procs : CacheWarm(p)
    \/ \E p \in Procs : CacheStats(p)
    \/ TickRate

SpecCache == Init /\ [][NextCache]_vars

\* updates with fresh action data next to readers of GET /api/scoreboard
ClientWrite(p) ==
    /\ started < MaxReadRequests
    /\ \E bearer \in bearers, a \in ActionIds :
          /\ ~ActionLogged(a)
          /\ \A q \in Procs : req[q].body.actionId # a
          /\ Receive(p, bearer, Request("update", SignedBody(a, 1, toISOString(now)), "", ""))

ClientScoreboard(p) ==
    /\ started < MaxReadRequests
    /\ Receive(p, NoBearer, Request("scoreboard", NoBody, "", ""))

NextRead ==
    \/ \E p \in Procs : ClientWrite(p)
    \/ \E p \in Procs : ClientScoreboard(p)
    \/ \E p \in Procs : UpdateSteps(p)
    \/ \E p \in Procs : GetScoreboardReply(p)
    \/ Tick

SpecRead == Init /\ [][NextRead]_vars

\* GET /api/scoreboard/user/:userId, for users with and without a row
ClientUserScore(p) ==
    /\ started < MaxUserRequests
    /\ \E bearer \in bearers \cup {NoBearer}, userId \in UserIds :
          Receive(p, bearer, [Request("userScore", NoBody, "", "")
                                 EXCEPT !.params = [userId |-> userId]])

NextUser ==
    \/ \E p \in Procs : ClientUserScore(p)
    \/ \E p \in Procs : RateLimitCheck(p)
    \/ \E p \in Procs : RateLimitIncrement(p)
    \/ \E p \in Procs : GetUserScoreCached(p)
    \/ \E p \in Procs : GetUserScoreUser(p)
    \/ \E p \in Procs : GetUserScoreRankHit(p)
    \/ \E p \in Procs : GetUserScoreFind(p)
    \/ \E p \in Procs : GetUserScoreRank(p)
    \/ \E p \in Procs : GetUserScoreTotal(p)
    \/ \E p \in Procs : GetUserScoreStore(p)
    \/ Tick

SpecUser == Init /\ [][NextUser]_vars

\* alice and bob have registered and the cache was cleared, as in Init; then
\* two WebSocket clients connected, and each was sent its connection_status
\* message by the /ws route
InitSubscribed ==
    /\ userTable = {"alice", "bob"}
    /\ scoreTable = [u \in {"alice", "bob"} |-> [score |-> 0, lastUpdated |-> 0]]
    /\ actionLog = <<>>
    /\ rowLock = [u \in UserIds |-> 0]
    /\ redis = [sb |-> <<>>, us |-> <<>>, rl |-> <<>>, kv |-> <<>>, ss |-> <<>>]
    /\ redisUp = TRUE
    /\ storeUp = TRUE
    /\ memoryCache = [sb |-> <<>>, us |-> <<>>, kv |-> <<>>, ss |-> <<>>]
    /\ connections = [c \in {"c1", "c2"} |-> [NewSocket EXCEPT !.received = <<Greeting(c)>>]]
    /\ now = 0
    /\ pc = [p \in Procs |-> "idle"]
    /\ req = [p \in Procs |-> NoReq]
    /\ loc = [p \in Procs |-> NoLoc]
    /\ resp = NoResp
    /\ bearers = {"alice", "bob"}
    /\ issued = {}
    /\ started = 0
    /\ hist = NoHist

\* a valid body, one with a wrong hash, one out of bounds, one whose timestamp
\* is no date, one with a field missing
WsBodies ==
    {SignedBody("a1", 1, toISOString(0)),
     [SignedBody("a1", 1, toISOString(0)) EXCEPT !.scoreIncrement = MaxIncrement],
     SignedBody("a2", MaxIncrement + 1, toISOString(0)),
     SignedBody("a2", 1, JunkDate),
     [SignedBody("a2", 1, toISOString(0)) EXCEPT !.actionId = ""]}

ClientWsUpdate(p) ==
    /\ started < MaxWsRequests
    /\ \E body \in WsBodies : Receive(p, "alice", Request("update", body, "", ""))

NextWs ==
    \/ \E p \in Procs : ClientWsUpdate(p)
    \/ \E p \in Procs : UpdateSteps(p)
    \/ WsConnect("c3")
    \/ WsClose("c1")
    \/ WsBreak("c2")
    \/ \E c \in {"c1", "c2"} : WsEvent(c)

SpecWs == InitSubscribed /\ [][NextWs]_vars

\* updates that are accepted and that are rejected next to registrations, in
\* front of two subscribers and one that connects
ClientAnnounce(p) ==
    /\ started < MaxAnnounceRequests
    /\ \/ \E body \in WsBodies : Receive(p, "alice", Request("update", body, "", ""))
       \/ \E username \in {"carol", "bob"} :
             Receive(p, NoBearer, Request("register", NoBody, username, "secret"))

NextAnnounce ==
    \/ \E p \in Procs : ClientAnnounce(p)
    \/ \E p \in Procs : UpdateSteps(p)
    \/ \E p \in Procs : RegisterFind(p)
    \/ \E p \in Procs : RegisterTxUser(p)
    \/ \E p \in Procs : RegisterTransaction(p)
    \/ \E p \in Procs : RegisterCreateUser(p)
    \/ \E p \in Procs : RegisterCreateScore(p)
    \/ \E p \in Procs : RegisterReply(p)
    \/ WsConnect("c3")

SpecAnnounce == InitSubscribed /\ [][NextAnnounce]_vars

\* subscribers send frames, well-formed and not, while connections open,
\* close and break
FrameTexts == {"{\"userId\":\"alice\"}", "{}", "null", "hello"}

ClientFrame(c) ==
    /\ started < MaxFrames
    /\ \E text \in FrameTexts : WsMessage(c, text)

NextFrame ==
    \/ \E c \in {"c1", "c2", "c3"} : ClientFrame(c)
    \/ WsConnect("c3")
    \/ WsClose("c1")
    \/ WsBreak("c2")
    \/ \E c \in {"c1", "c2"} : WsEvent(c)

SpecFrame == InitSubscribed /\ [][NextFrame]_vars

\* frames, and the events of connections that were removed before: c1 and c2
\* were added at the start and are never added again
ClientEventAgain(c) ==
    /\ started < MaxFrames
    /\ WsEventAgain(c)

NextSockets ==
    \/ \E c \in {"c1", "c2", "c3"} : ClientFrame(c)
    \/ WsConnect("c3")
    \/ WsClose("c1")
    \/ WsBreak("c2")
    \/ \E c \in {"c1", "c2"} : WsEvent(c)
    \/ \E c \in {"c1", "c2"} : ClientEventAgain(c)

SpecSockets == InitSubscribed /\ [][NextSockets]_vars

\* updates next to readers of GET /api/scoreboard, with two subscribers
SpecCast == InitSubscribed /\ [][NextRead]_vars

\* concurrent updates, retries and replays in front of two subscribers
SpecRace == InitSubscribed /\ [][Next]_vars

\* the database and Redis become unreachable and reachable again while
\* updates with fresh action data are under way
StoreDown ==
    /\ storeUp
    /\ storeUp' = FALSE
    /\ UNCHANGED <<userTable, scoreTable, actionLog, rowLock, cacheVars, connections,
                   now, procVars, envVars, hist>>

StoreBack ==
    /\ ~storeUp
    /\ storeUp' = TRUE
    /\ UNCHANGED <<userTable, scoreTable, actionLog, rowLock, cacheVars, connections,
                   now, procVars, envVars, hist>>

RedisDown ==
    /\ redisUp
    /\ redisUp' = FALSE
    /\ UNCHANGED <<dbVars, redis, memoryCache, connections, now, procVars, envVars, hist>>

RedisBack ==
    /\ ~redisUp
    /\ redisUp' = TRUE
    /\ UNCHANGED <<dbVars, redis, memoryCache, connections, now, procVars, envVars, hist>>

ClientFailUpdate(p) ==
    /\ started < MaxFailRequests
    /\ \E bearer \in bearers, a \in ActionIds :
          /\ ~ActionLogged(a)
          /\ \A q \in Procs : req[q].body.actionId # a
          /\ Receive(p, bearer, Request("update", SignedBody(a, 1, toISOString(now)), "", ""))

NextFail ==
    \/ \E p \in Procs : ClientFailUpdate(p)
    \/ \E p \in Procs : UpdateSteps(p)
    \/ StoreDown
    \/ StoreBack
    \/ RedisDown
    \/ RedisBack

SpecFail == InitSubscribed /\ [][NextFail]_vars

\* callers of getTopScores with a limit of 1, 2 or 10 next to updates of alice
TopLimits == {1, 2, TopLimit}

ClientTop(p) ==
    /\ started < MaxTopRequests
    /\ \/ \E a \in ActionIds :
             /\ ~ActionLogged(a)
             /\ \A q \in Procs : req[q].body.actionId # a
             /\ Receive(p, "alice",
                        Request("update", SignedBody(a, 1, toISOString(now)), "", ""))
       \/ \E limit \in TopLimits : GetTopScoresCall(p, limit)

NextTop ==
    \/ \E p \in Procs : ClientTop(p)
    \/ \E p \in Procs : UpdateSteps(p)

SpecTop == Init /\ [][NextTop]_vars

\* a burst of update requests of alice, with empty bodies, while Redis comes
\* and goes
ClientOutage(p) ==
    /\ started < MaxOutageRequests
    /\ Receive(p, "alice", Request("update", NoBody, "", ""))

NextOutage ==
    \/ \E p \in Procs : ClientOutage(p)
    \/ \E p \in Procs : RateLimitCheck(p)
    \/ \E p \in Procs : RateLimitIncrement(p)
    \/ \E p \in Procs : UpdateValidate(p)
    \/ RedisDown
    \/ RedisBack

SpecOutage == Init /\ [][NextOutage]_vars

\* Redis goes down and stays down while alice sends updates with fresh action
\* data and the ranking and her score are read
ClientDegraded(p) ==
    /\ started < MaxDegradedRequests
    /\ \/ \E a \in ActionIds :
             /\ ~ActionLogged(a)
             /\ \A q \in Procs : req[q].body.actionId # a
             /\ Receive(p, "alice",
                        Request("update", SignedBody(a, 1, toISOString(now)), "", ""))
       \/ Receive(p, NoBearer, Request("scoreboard", NoBody, "", ""))
       \/ Receive(p, "alice", [Request("userScore", NoBody, "", "")
                                  EXCEPT !.params = [userId |-> "alice"]])

NextDegraded ==
    \/ \E p \in Procs : ClientDegraded(p)
    \/ \E p \in Procs : UpdateSteps(p)
    \/ \E p \in Procs : GetScoreboardReply(p)
    \/ \E p \in Procs : GetUserScoreCached(p)
    \/ \E p \in Procs : GetUserScoreUser(p)
    \/ \E p \in Procs : GetUserScoreRankHit(p)
    \/ \E p \in Procs : GetUserScoreFind(p)
    \/ \E p \in Procs : GetUserScoreRank(p)
    \/ \E p \in Procs : GetUserScoreTotal(p)
    \/ \E p \in Procs : GetUserScoreStore(p)
    \/ RedisDown

SpecDegraded == InitSubscribed /\ [][NextDegraded]_vars

\* registrations, through either copy of AuthService.register, while the
\* database comes and goes
ClientSignUp(p) ==
    /\ started < MaxSignUps
    /\ \E username \in {"carol", "bob"} :
          Receive(p, NoBearer, Request("register", NoBody, username, "secret"))

NextSignUp ==
    \/ \E p \in Procs : ClientSignUp(p)
    \/ \E p \in Procs : RateLimitCheck(p)
    \/ \E p \in Procs : RateLimitIncrement(p)
    \/ \E p \in Procs : RegisterFind(p)
    \/ \E p \in Procs : RegisterTxUser(p)
    \/ \E p \in Procs : RegisterTransaction(p)
    \/ \E p \in Procs : RegisterCreateUser(p)
    \/ \E p \in Procs : RegisterCreateScore(p)
    \/ \E p \in Procs : RegisterReply(p)
    \/ \E p \in Procs : GetTopScoresCached(p)
    \/ \E p \in Procs : GetTopScoresQuery(p)
    \/ \E p \in Procs : GetTopScoresStore(p)
    \/ StoreDown
    \/ StoreBack

SpecSignUp == InitSubscribed /\ [][NextSignUp]_vars

\* carol registers, through either copy of AuthService.register, while the
\* database comes and goes, logs in, and sends updates
ClientOrphan(p) ==
    /\ started < MaxOrphanRequests
    /\ \/ Receive(p, NoBearer, Request("register", NoBody, "carol", "secret"))
       \/ \E password \in {"secret", "guess"} :
             Receive(p, NoBearer, Request("login", NoBody, "carol", password))
       \/ \E a \in ActionIds :
             /\ ~ActionLogged(a)
             /\ \A q \in Procs : req[q].body.actionId # a
             /\ Receive(p, "carol", Request("update", SignedBody(a, 1, toISOString(now)), "", ""))

NextOrphan ==
    \/ \E p \in Procs : ClientOrphan(p)
    \/ \E p \in Procs : RegisterFind(p)
    \/ \E p \in Procs : RegisterTxUser(p)
    \/ \E p \in Procs : RegisterTransaction(p)
    \/ \E p \in Procs : RegisterCreateUser(p)
    \/ \E p \in Procs : RegisterCreateScore(p)
    \/ \E p \in Procs : RegisterReply(p)
    \/ \E p \in Procs : LoginFind(p)
    \/ \E p \in Procs : LoginCompare(p)
    \/ \E p \in Procs : UpdateSteps(p)
    \/ StoreDown
    \/ StoreBack

SpecOrphan == Init /\ [][NextOrphan]_vars

\* a ranking is handed to broadcastScoreboardUpdate, MaxEmits times, while
\* one client reads what is sent to it and the other does not
EmitScoreboard(scoreboard) ==
    /\ \A c \in DOMAIN connections : Len(connections[c].received) <= MaxEmits
    /\ connections' = broadcastScoreboardUpdate(scoreboard)
    /\ hist' = RecordEvictions(hist)
    /\ UNCHANGED <<dbVars, cacheVars, now, procVars, envVars>>

\* the client of connection c reads the next message sent to it
WsTake(c) ==
    /\ c \in DOMAIN connections
    /\ connections[c].taken < Len(connections[c].received)
    /\ connections' = [connections EXCEPT ![c].taken = @ + 1]
    /\ UNCHANGED <<dbVars, cacheVars, now, procVars, envVars, hist>>

NextBuffer ==
    \/ EmitScoreboard(Entries(<<"alice", "bob">>))
    \/ WsTake("c1")

SpecBuffer == InitSubscribed /\ [][NextBuffer]_vars

\* more identities than the ranking holds, and one subscriber
RankedUsers == <<"u01", "u02", "u03", "u04", "u05", "u06", "u07", "u08", "u09", "u10", "u11">>
RankedUserIds == {RankedUsers[i] : i \in DOMAIN RankedUsers}
\* the users that send updates
RankActors == {RankedUsers[i] : i \in {TopLimit, TopLimit + 1}}

\* the state after the users of RankedUsers registered at time 0 and each sent
\* one update, every second one at time ClockStep; the last two have the same
\* score; DELETE /api/cache/clear emptied the caches and the limiters'
\* counters after each round, and then one WebSocket client connected and
\* was sent its connection_status message; hist records what happens from
\* this state on
InitRanked ==
    LET \* the update of the i-th user: its action id, the score it wrote, its
        \* time; and the users in the order of their updates
        actionId(i) ==
            <<"r01", "r02", "r03", "r04", "r05", "r06", "r07", "r08", "r09", "r10",
              "r11">>[i]
        score(i) == IF i >= TopLimit THEN 1 ELSE TopLimit + 1 - i
        time(i) == IF i % 2 = 0 THEN ClockStep ELSE 0
        order == <<1, 3, 5, 7, 9, 11, 2, 4, 6, 8, 10>>
    IN
    /\ userTable = RankedUserIds
    /\ scoreTable = [u \in RankedUserIds |->
            LET i == CHOOSE k \in DOMAIN RankedUsers : RankedUsers[k] = u
            IN  [score |-> score(i), lastUpdated |-> time(i)]]
    /\ actionLog = [k \in DOMAIN order |->
            LET i == order[k]
            IN  [userId |-> RankedUsers[i], actionId |-> actionId(i),
                 scoreIncrement |-> score(i),
                 actionHash |-> generateActionHash(actionId(i), score(i),
                                                   toISOString(time(i))),
                 timestamp |-> time(i), ipAddress |-> "10.0.0.1",
                 createdAt |-> time(i)]]
    /\ rowLock = [u \in RankedUserIds |-> 0]
    /\ redis = [sb |-> <<>>, us |-> <<>>, rl |-> <<>>, kv |-> <<>>, ss |-> <<>>]
    /\ redisUp = TRUE
    /\ storeUp = TRUE
    /\ memoryCache = [sb |-> <<>>, us |-> <<>>, kv |-> <<>>, ss |-> <<>>]
    /\ connections = [c \in {"c1"} |-> [NewSocket EXCEPT !.received = <<Greeting(c)>>]]
    /\ now = ClockStep
    /\ pc = [p \in Procs |-> "idle"]
    /\ req = [p \in Procs |-> NoReq]
    /\ loc = [p \in Procs |-> NoLoc]
    /\ resp = NoResp
    /\ bearers = RankedUserIds
    /\ issued = {}
    /\ started = 0
    /\ hist = NoHist

ClientRankWrite(p) ==
    /\ started < MaxRankRequests
    /\ \E bearer \in RankActors, a \in ActionIds :
          /\ ~ActionLogged(a)
          /\ \A q \in Procs : req[q].body.actionId # a
          /\ Receive(p, bearer, Request("update", SignedBody(a, 1, toISOString(now)), "", ""))

ClientRankScoreboard(p) ==
    /\ started < MaxRankRequests
    /\ Receive(p, NoBearer, Request("scoreboard", NoBody, "", ""))

NextRank ==
    \/ \E p \in Procs : ClientRankWrite(p)
    \/ \E p \in Procs : ClientRankScoreboard(p)
    \/ \E p \in Procs : UpdateSteps(p)
    \/ \E p \in Procs : GetScoreboardReply(p)

SpecRank == InitRanked /\ [][NextRank]_vars

\* ------------------------------------------------------------- properties

\* the rows of the action log with action id n, and those of user u
EntriesOf(n) == {i \in DOMAIN actionLog : actionLog[i].actionId = n}
RECURSIVE LoggedSum(_, _)
LoggedSum(u, i) ==
    IF i = 0 THEN 0
    ELSE LoggedSum(u, i - 1) +
         (IF actionLog[i].userId = u THEN actionLog[i].scoreIncrement ELSE 0)

AllIdle == \A p \in Procs : pc[p] = "idle"

\* C1: however many updates carry one action id, concurrently or not, the
\* log holds at most one row with it, every score is the sum of the logged
\* increments (so the increment was applied once, not twice), and once the
\* calls are over an action id that got as far as the transaction is logged
\* exactly once
C1_AppliedOnce ==
    /\ \A n \in ActionIds : Cardinality(EntriesOf(n)) <= 1
    /\ \A u \in DOMAIN scoreTable : scoreTable[u].score = LoggedSum(u, Len(actionLog))
    /\ AllIdle => \A n \in hist.reachedTx : Cardinality(EntriesOf(n)) = 1

\* two calls carrying a1 were inside the transaction together: one committed,
\* the insert of the other hit the unique index
C1_Witness ==
    /\ AllIdle
    /\ "duplicate" \in hist.rolledBack
    /\ Cardinality(EntriesOf("a1")) = 1

\* C2: an update whose action id was in the log when it arrived is never
\* answered 200; if it is authenticated, passes the limiter and has its four
\* fields, its answer is DUPLICATE_ACTION; it never enters the transaction,
\* and the step that answers it leaves scores and log as they were
C2_ReplayRejected ==
    /\ [](/\ (resp.req.route = "update" /\ resp.req.dupAtStart) => resp.status # 200
          /\ (resp.req.route = "update" /\ resp.req.dupAtStart /\ resp.req.complete
                  /\ resp.status \notin {401, 429})
                => resp.code = "DUPLICATE_ACTION"
          /\ \A p \in Procs :
                (req[p].route = "update" /\ req[p].dupAtStart)
                    => pc[p] \in {"rl_get", "rl_incr", "us_find"})
    /\ [][\A p \in Procs :
            (req[p].route = "update" /\ req[p].dupAtStart /\ pc'[p] = "idle")
                => UNCHANGED <<scoreTable, actionLog>>]_vars

C2_Witness ==
    /\ resp.req.route = "update"
    /\ resp.req.dupAtStart
    /\ resp.code = "DUPLICATE_ACTION"
    /\ Cardinality(EntriesOf(resp.req.actionId)) = 1

\* C3: in every state each score is the sum of the increments logged for its
\* user: score update and log insert commit together or not at all
C3_ScoreMatchesLog ==
    \A u \in DOMAIN scoreTable : scoreTable[u].score = LoggedSum(u, Len(actionLog))

\* an insert failed (no date, or duplicate id) after the score row had been
\* updated inside the transaction
C3_Witness ==
    /\ hist.rolledBack # {}
    /\ resp.code = "SCORE_UPDATE_FAILED"

\* C4: a GET /api/scoreboard received after an update was answered 200 shows
\* that user with at least the score the answer told
C4_ReadAfterWrite ==
    (resp.req.route = "scoreboard" /\ resp.status = 200)
        => \A u \in DOMAIN resp.req.acked :
              \E i \in DOMAIN resp.scoreboard :
                  /\ resp.scoreboard[i].userId = u
                  /\ resp.scoreboard[i].score >= resp.req.acked[u]

\* the action data of a log row
TokenOf(row) ==
    [actionId |-> row.actionId, scoreIncrement |-> row.scoreIncrement,
     timestamp |-> toISOString(row.timestamp), actionHash |-> row.actionHash]

\* C5: every accepted update carries action data that generate-action issued
C5_OnlyIssuedAccepted ==
    \A i \in DOMAIN actionLog : \E t \in issued : t.token = TokenOf(actionLog[i])

\* C6: action data issued to one user is never accepted from another
C6_BoundToIdentity ==
    \A i \in DOMAIN actionLog : \A t \in issued :
        t.token = TokenOf(actionLog[i]) => t.userId = actionLog[i].userId

Abs(x) == IF x < 0 THEN -x ELSE x

\* C7: every accepted update had a timestamp within the freshness window of
\* the time it was accepted
C7_FreshOnly ==
    \A i \in DOMAIN actionLog :
        Abs(actionLog[i].createdAt - actionLog[i].timestamp) <= FreshWindowSec

\* the update requests of user u that passed the limiter within the window
PassesOf(u) ==
    LET keys == {k \in DOMAIN hist.passes : k[1] = u}
        RECURSIVE Total(_)
        Total(ks) == IF ks = {} THEN 0
                     ELSE LET k == CHOOSE x \in ks : TRUE
                          IN  hist.passes[k] + Total(ks \ {k})
    IN  Total(keys)

\* C8: at most ScoreUpdateMaxRequests updates of one user pass per window
C8_AtMostRPass ==
    \A u \in UserIds : PassesOf(u) <= ScoreUpdateMaxRequests

\* C9: an update is answered 429 only when its own user used up the quota
C9_PerIdentityQuota ==
    (resp.req.route = "update" /\ resp.status = 429)
        => PassesOf(resp.req.userId) >= ScoreUpdateMaxRequests

\* C10: every logged increment is within 1..1000, every score is a natural
\* number, and no step lowers a score
C10_BoundedIncrements ==
    /\ [](/\ \A i \in DOMAIN actionLog :
                /\ actionLog[i].scoreIncrement >= MinIncrement
                /\ actionLog[i].scoreIncrement <= MaxIncrement
          /\ \A u \in DOMAIN scoreTable : scoreTable[u].score \in Nat)
    /\ [][\A u \in DOMAIN scoreTable : scoreTable'[u].score >= scoreTable[u].score]_vars

\* an update with an increment out of bounds was refused after another
\* had raised a score
C10_Witness ==
    /\ resp.req.route = "update"
    /\ resp.code = "INVALID_SCORE_INCREMENT"
    /\ \E u \in DOMAIN scoreTable : scoreTable[u].score > 0

\* a ranking of at most TopLimit entries, ranks 1..n, ordered by score
\* descending and, among equal scores, by lastUpdated ascending
WellRanked(r) ==
    /\ Len(r) <= TopLimit
    /\ \A i \in DOMAIN r : r[i].rank = i
    /\ \A i, j \in DOMAIN r :
          i < j => \/ r[i].score > r[j].score
                   \/ r[i].score = r[j].score /\ r[i].lastUpdated <= r[j].lastUpdated

\* the scoreboard_update messages sent so far
UpdateMessages ==
    UNION {{connections[c].received[i] : i \in DOMAIN connections[c].received} :
              c \in DOMAIN connections}

\* C11: the ranking of every GET /api/scoreboard reply, of every
\* scoreboard_update and of the cache entry has at most 10 entries, ranks
\* 1..n, and is ordered by score descending, then lastUpdated ascending
C11_RankingOrdered ==
    /\ WellRanked(resp.scoreboard)
    /\ \A m \in UpdateMessages : WellRanked(m.scoreboard)
    /\ \A p \in Procs : WellRanked(loc[p].rows)
    /\ RedisHas("sb", SbKey) => WellRanked(FromCached(redis.sb[SbKey].value))

\* with eleven users, a GET served from the cache after an update shows ten
C11_Witness ==
    /\ resp.req.route = "scoreboard"
    /\ resp.status = 200
    /\ Len(resp.scoreboard) = TopLimit
    /\ resp.totalUsers > TopLimit
    /\ Len(actionLog) > Len(RankedUsers)
    /\ \E m \in UpdateMessages : Len(m.scoreboard) = TopLimit

\* C12: the rank GET /api/scoreboard/user/:userId reports is 1 + the number
\* of rows with a greater score, or the same score and an earlier lastUpdated
\* than the user's own row (no writes run in this specification)
C12_UserRank ==
    (resp.req.route = "userScore" /\ resp.status = 200)
        => LET userId == resp.req.params.userId
           IN  /\ resp.score = scoreTable[userId].score
               /\ resp.rank = CountAboveOwn(scoreTable[userId].score, userId) + 1

\* the rows of other users that rank strictly above a row of user u with
\* score sc and lastUpdated t
AboveOthers(u, sc, t) ==
    {j \in DOMAIN scoreTable \ {u} :
        \/ scoreTable[j].score > sc
        \/ scoreTable[j].score = sc /\ scoreTable[j].lastUpdated < t}

\* C13: the commit of an update raises the row's score by the increment and
\* that is the new score; the rank query yields 1 + the number of other users
\* ranking strictly above the committed row; the 200 reply carries both
C13_UpdateResult ==
    [][\A p \in Procs :
        req[p].route = "update" =>
          /\ (pc[p] = "tx_create" /\ pc'[p] = "us_rank")
                => /\ loc'[p].newScore =
                          scoreTable[req[p].user.userId].score + req[p].body.scoreIncrement
                   /\ scoreTable'[req[p].user.userId].score = loc'[p].newScore
          /\ (pc[p] = "us_rank" /\ pc'[p] = "us_inval_sb")
                => loc'[p].rank =
                      1 + Cardinality(AboveOthers(req[p].user.userId, loc[p].newScore,
                                                  loc[p].lastUpdated))
          /\ (pc'[p] = "idle" /\ resp'.status = 200)
                => /\ resp'.newScore = loc[p].newScore
                   /\ resp'.rank = loc[p].rank]_vars

\* a step sends a message to a connection that stays connected
MessageSent ==
    \E c \in DOMAIN connections \cap DOMAIN connections' :
        Len(connections'[c].received) > Len(connections[c].received)

\* the transaction of the request of worker p has committed
RequestCommitted(p) ==
    \/ /\ req[p].route = "update"
       /\ \E i \in DOMAIN actionLog :
             /\ actionLog[i].actionId = req[p].body.actionId
             /\ actionLog[i].userId = req[p].user.userId
             /\ scoreTable[req[p].user.userId].score >= actionLog[i].scoreIncrement
    \/ /\ req[p].route = "register"
       /\ req[p].username \in userTable
       /\ Has(scoreTable, req[p].username)
       /\ pc[p] \in {"gts_get", "gts_db", "gts_set"}

\* worker p, past the commit of its update, answers in this step
AnswersCommitted(p) ==
    /\ req[p].route = "update"
    /\ pc[p] \in {"us_rank", "us_inval_sb", "us_inval_us", "us_set_us",
                  "gts_get", "gts_db", "gts_set"}
    /\ pc'[p] = "idle"

\* C19: an update whose transaction has committed is answered 200 with its
\* score and rank, its log row stays, and the subscribers get a message,
\* whatever fails after the commit
C19_FailureAfterCommit ==
    [][\A p \in Procs :
        AnswersCommitted(p) =>
            /\ resp'.status = 200
            /\ resp'.newScore = loc[p].newScore
            /\ resp'.rank = loc[p].rank
            /\ ActionLogged(req[p].body.actionId)'
            /\ MessageSent]_vars

\* C14: a step that sends a scoreboard_update is a step of a request whose
\* transaction has committed, and the step that answers an update with an
\* error sends nothing
C14_BroadcastAfterCommit ==
    [][/\ MessageSent => \E p \in Procs : pc'[p] # pc[p] /\ RequestCommitted(p)
       /\ \A p \in Procs :
             (req[p].route = "update" /\ pc'[p] = "idle" /\ resp'.status # 200)
                 => UNCHANGED connections]_vars

\* a subscriber holds the scoreboard_update of a committed update, and the
\* last update was answered with an error
C14_Witness ==
    /\ actionLog # <<>>
    /\ \E m \in UpdateMessages : m.type = "scoreboard_update"
    /\ resp.req.route = "update"
    /\ resp.status = 400

\* worker p sends its broadcast in this step
Broadcasts(p) ==
    /\ req[p].route \in {"update", "register"}
    /\ pc[p] \in {"gts_get", "gts_set"}
    /\ pc'[p] = "idle"

\* C18: a broadcast removes exactly the connections that are not open or
\* whose send throws, every other connection gets the same message appended,
\* and the update that caused it is answered 200 with its score and rank
C18_FailureEvictsOne ==
    [][\A p \in Procs :
        Broadcasts(p) =>
          /\ DOMAIN connections' = Sendable
          /\ Sendable = {} \/ \E m \in UpdateMessages' :
                \A c \in Sendable :
                    /\ connections'[c].received = Append(connections[c].received, m)
                    /\ connections'[c].readyState = connections[c].readyState
          /\ req[p].route = "update"
                => /\ resp'.status = 200
                   /\ resp'.newScore = loc[p].newScore
                   /\ resp'.rank = loc[p].rank]_vars

\* one broadcast removed the closed c1 and the broken c2, c3 got the message,
\* and the update was answered 200
C18_Witness ==
    /\ hist.evicted = {"c1", "c2"}
    /\ "c3" \in DOMAIN connections
    /\ \E i \in DOMAIN connections["c3"].received :
          connections["c3"].received[i].type = "scoreboard_update"
    /\ resp.req.route = "update"
    /\ resp.status = 200

\* what a rejected update must leave alone: scores, log, the cached ranking
\* and the cached user scores (Redis and in-process), the subscribers
Untouched ==
    /\ UNCHANGED <<scoreTable, actionLog, memoryCache, connections>>
    /\ redis'.sb = redis.sb
    /\ redis'.us = redis.us

\* C20: no step of an update up to and including its transaction touches
\* scores, log, cached ranking, cached user score or subscribers, unless it
\* is the commit; so an update answered with an error from there (missing
\* fields, hash, bounds, duplicate, failed transaction) changed none of them
C20_RejectedChangesNothing ==
    [][\A p \in Procs :
        (/\ req[p].route = "update"
         /\ pc[p] \in {"rl_get", "rl_incr", "us_find", "tx_update", "tx_create"}
         /\ pc'[p] # pc[p]
         /\ pc'[p] # "us_rank")
            => Untouched]_vars

\* transactions were rolled back for a timestamp that is no date and for a
\* duplicate action id, and the last update was answered with an error,
\* while a subscriber is connected and the ranking is cached
C20_Witness ==
    /\ hist.rolledBack # {}
    /\ resp.req.route = "update"
    /\ resp.code \in {"SCORE_UPDATE_FAILED", "INVALID_ACTION_HASH", "INVALID_SCORE_INCREMENT",
                      "DUPLICATE_ACTION", "MISSING_FIELDS"}
    /\ RedisHas("sb", SbKey)
    /\ DOMAIN connections # {}

\* the message sent last to connection c
LastMessage(c) == connections[c].received[Len(connections[c].received)]

\* C15: when an update is answered 200, every connected open subscriber has
\* received, as its last message, a scoreboard_update that shows the updated
\* user with at least the new score
C15_BroadcastShowsCommit ==
    (resp.req.route = "update" /\ resp.status = 200)
        => \A c \in DOMAIN connections :
              /\ connections[c].received # <<>>
              /\ LastMessage(c).type = "scoreboard_update"
              /\ \E i \in DOMAIN LastMessage(c).scoreboard :
                    /\ LastMessage(c).scoreboard[i].userId = resp.req.userId
                    /\ LastMessage(c).scoreboard[i].score >= resp.newScore

\* C16: the totalUsers of every scoreboard_update equals the number of
\* registered users, the totalUsers GET /api/scoreboard reports
C16_TotalUsers ==
    \A m \in UpdateMessages :
        m.type = "scoreboard_update" => m.totalUsers = Cardinality(userTable)

\* the messages sent to connection c that its client has not read
Undelivered(c) == Len(connections[c].received) - connections[c].taken

\* C17: no connected subscriber has more than BufferCap messages it has not
\* taken delivery of: one more emit unsubscribes it
C17_BoundedBuffer ==
    \A c \in DOMAIN connections : Undelivered(c) <= BufferCap

\* worker p passes the score-update limiter in this step
PassesLimiter(p) ==
    /\ req[p].route = "update"
    /\ pc[p] = "rl_incr"
    /\ pc'[p] # "rl_incr"

\* C21: an update whose body lacks a field or whose hash does not match its
\* other fields is answered without the rate-limit counters being incremented
C21_ChecksInOrder ==
    [][\A p \in Procs :
        (/\ PassesLimiter(p)
         /\ \/ ~FieldsPresent(req[p].body)
            \/ req[p].body.actionHash #
                   generateActionHash(req[p].body.actionId, req[p].body.scoreIncrement,
                                      req[p].body.timestamp))
            => redis'.rl = redis.rl]_vars

\* the workers whose getTopScores(10) missed the cache and whose findMany has
\* not returned yet
Loading == {p \in Procs : pc[p] = "gts_db"}

\* C22: concurrent misses of the cached ranking share one query of the
\* store: no two calls of getTopScores(10) have their findMany under way at
\* the same time
C22_SingleFlight == Cardinality(Loading) <= 1

\* the handler of a frame runs in this step
FrameHandled == hist'.frame.seq # hist.frame.seq

\* the error message the 'message' handler sends
ErrorMessage ==
    [type |-> "error", scoreboard |-> <<>>, totalUsers |-> 0, connectionId |-> "",
     error |-> "Invalid message format", status |-> "", userId |-> ""]

\* C23: a frame of subscriber s that is no JSON text makes the server send an
\* error message to s alone: s stays connected and open with the message
\* appended, and every other connection is left as it was
C23_MalformedFrame ==
    [][(FrameHandled /\ ~JSONParse(hist'.frame.text).ok) =>
        LET s == hist'.frame.from
        IN  /\ s \in DOMAIN connections'
            /\ connections'[s] =
                   [connections[s] EXCEPT !.received = Append(@, ErrorMessage)]
            /\ \A c \in DOMAIN connections \ {s} :
                   c \in DOMAIN connections' /\ connections'[c] = connections[c]]_vars

\* C24: a frame that is a JSON object is only logged: no message is sent, and
\* the connections, the tables and the caches stay as they were
C24_FrameIgnored ==
    [][(/\ FrameHandled
        /\ JSONParse(hist'.frame.text).ok
        /\ ~JSONParse(hist'.frame.text).isNull)
            => UNCHANGED <<connections, dbVars, cacheVars>>]_vars

\* C25: in every state, also while a registration is under way and after
\* one has failed, every registered user has a score row
C25_IdentityHasScore ==
    \A u \in userTable : Has(scoreTable, u)

\* the HTTP status the rejection codes of the update route go with
RejectionStatus(code) ==
    CASE code = "DUPLICATE_ACTION" -> 409
      [] code = "INVALID_ACTION_HASH" -> 401
      [] code = "Too many requests" -> 429
      [] OTHER -> 400

\* C26: an update that is refused is answered with the status of its
\* rejection: 409 for a used action id, 401 for a hash mismatch, 429 by the
\* limiter, 400 for a missing field or an increment out of bounds
C26_StatusPerRejection ==
    (/\ resp.req.route = "update"
     /\ resp.code \in {"MISSING_FIELDS", "INVALID_SCORE_INCREMENT", "INVALID_ACTION_HASH",
                       "DUPLICATE_ACTION", "Too many requests"})
        => resp.status = RejectionStatus(resp.code)

\* worker p answers a read in this step, 200, to a request received while
\* Redis was down
AnswersDegradedRead(p) ==
    /\ req[p].route \in {"scoreboard", "userScore"}
    /\ req[p].cacheDown
    /\ pc[p] # "idle"
    /\ pc'[p] = "idle"
    /\ resp'.status = 200

\* C27, as stated: a read answered while Redis is down carries the scores the
\* table holds at the moment of the answer
C27_ReadsCurrentStore ==
    [][\A p \in Procs :
        AnswersDegradedRead(p) =>
            /\ req[p].route = "scoreboard" =>
                  \A i \in DOMAIN resp'.scoreboard :
                      resp'.scoreboard[i].score
                          = scoreTable[resp'.scoreboard[i].userId].score
            /\ req[p].route = "userScore" =>
                  resp'.score = scoreTable[req[p].params.userId].score]_vars

\* the score of user u after the first k commits: the sum of the increments
\* of its rows among the first k rows of the log
ScoreAfter(u, k) == LoggedSum(u, k)

\* C27, amended: of the requests received while Redis is down, an update with
\* fresh action data is answered 200 with the score its own commit wrote and
\* is in the log; GET /api/scoreboard is answered 200 with every user, ranked,
\* with the scores the table held at one moment between the arrival of the
\* request and its answer; getUserScore tells the score the table held at
\* such a moment, and the number of registered users
C27_DegradedCache ==
    resp.req.cacheDown =>
        /\ resp.req.route = "update" =>
              /\ resp.status = 200
              /\ \E i \in DOMAIN actionLog :
                    /\ actionLog[i].actionId = resp.req.actionId
                    /\ actionLog[i].userId = resp.req.userId
                    /\ resp.newScore = ScoreAfter(resp.req.userId, i)
        /\ resp.req.route = "scoreboard" =>
              /\ resp.status = 200
              /\ resp.totalUsers = Cardinality(userTable)
              /\ {resp.scoreboard[i].userId : i \in DOMAIN resp.scoreboard} = userTable
              /\ Len(resp.scoreboard) = Cardinality(userTable)
              /\ WellRanked(resp.scoreboard)
              /\ \E k \in resp.req.logAt .. resp.req.logEnd :
                    \A i \in DOMAIN resp.scoreboard :
                        resp.scoreboard[i].score = ScoreAfter(resp.scoreboard[i].userId, k)
        /\ resp.req.route = "userScore" =>
              /\ resp.status = 200
              /\ resp.totalUsers = Cardinality(userTable)
              /\ \E k \in resp.req.logAt .. resp.req.logEnd :
                    resp.score = ScoreAfter(resp.req.params.userId, k)

\* with Redis down, an update was acknowledged, and a read received after it
\* shows the acknowledged score
C27_Witness ==
    /\ ~redisUp
    /\ resp.req.cacheDown
    /\ resp.req.route \in {"scoreboard", "userScore"}
    /\ resp.status = 200
    /\ Has(resp.req.acked, "alice")
    /\ resp.req.acked["alice"] > 0
    /\ redis.us # <<>>

\* C28: a rate-limit counter is lowered or removed only by the step of the
\* clock at which its window ends
C28_CounterExpiryOnly ==
    [][\A k \in DOMAIN redis.rl :
        \/ k \in DOMAIN redis'.rl /\ redis'.rl[k].value >= redis.rl[k].value
        \/ now' > now /\ redis.rl[k].exp <= now']_vars

\* the users with an update in the log
Updated == {actionLog[i].userId : i \in DOMAIN actionLog}

\* C29: the lastUpdated values written by updates differ from one commit to
\* the next, so no two users brought to the same score by updates carry the
\* same lastUpdated
C29_StrictCommitTime ==
    \A u, v \in Updated :
        (u # v /\ scoreTable[u].score = scoreTable[v].score)
            => scoreTable[u].lastUpdated # scoreTable[v].lastUpdated

\* the transaction of the update of worker p commits in this step
Commits(p) ==
    /\ req[p].route = "update"
    /\ pc[p] = "tx_create"
    /\ pc'[p] = "us_rank"

\* C30: the commit of an update adds the increment to the row of the user of
\* the request's JWT, appends one log row of that user and action, and leaves
\* every other row and the users as they were; no other step changes a row or
\* the log
C30_OnlyOwnRow ==
    [][/\ \A p \in Procs :
            Commits(p) =>
                LET u == req[p].user.userId
                IN  /\ u \in bearers
                    /\ DOMAIN scoreTable' = DOMAIN scoreTable
                    /\ scoreTable'[u].score =
                           scoreTable[u].score + req[p].body.scoreIncrement
                    /\ \A v \in DOMAIN scoreTable \ {u} : scoreTable'[v] = scoreTable[v]
                    /\ Len(actionLog') = Len(actionLog) + 1
                    /\ SubSeq(actionLog', 1, Len(actionLog)) = actionLog
                    /\ actionLog'[Len(actionLog')].userId = u
                    /\ actionLog'[Len(actionLog')].actionId = req[p].body.actionId
                    /\ userTable' = userTable
       /\ (\/ actionLog' # actionLog
           \/ \E v \in DOMAIN scoreTable :
                 v \notin DOMAIN scoreTable' \/ scoreTable'[v] # scoreTable[v])
              => \E p \in Procs : Commits(p)]_vars

\* an update was answered 200: its user's score is the logged increment, and
\* another user still has the row of its registration
C30_Witness ==
    /\ resp.req.route = "update"
    /\ resp.status = 200
    /\ Len(actionLog) = 1
    /\ actionLog[1].userId = resp.req.userId
    /\ scoreTable[resp.req.userId].score = actionLog[1].scoreIncrement
    /\ \E v \in DOMAIN scoreTable \ {resp.req.userId} :
          scoreTable[v] = [score |-> 0, lastUpdated |-> 0]

\* C31: the first message sent to every subscriber, whenever it connected,
\* is the connection_status message with status connected and its own
\* connection id; every broadcast it gets comes after that message
C31_GreetingFirst ==
    \A c \in DOMAIN connections :
        /\ connections[c].received # <<>>
        /\ connections[c].received[1] = Greeting(c)
        /\ \A i \in DOMAIN connections[c].received :
              i > 1 => connections[c].received[i] # Greeting(c)

\* a subscriber of the start and one that connected during the run both got
\* their connection_status message first and a scoreboard_update after it
C31_Witness ==
    /\ {"c1", "c3"} \subseteq DOMAIN connections
    /\ \A c \in {"c1", "c3"} :
          /\ Len(connections[c].received) >= 2
          /\ connections[c].received[1] = Greeting(c)
          /\ connections[c].received[2].type = "scoreboard_update"

\* C32: when no request is under way, a cached user score is the score of
\* that user's row
C32_CachedScoreCurrent ==
    AllIdle =>
        \A u \in DOMAIN redis.us :
            Has(scoreTable, u) /\ parseInt(redis.us[u].value) = scoreTable[u].score

\* C33: when the updates are over, the scoreboard_update each subscriber got
\* last shows every user with the score and lastUpdated of its row
C33_LastBroadcastFinal ==
    (AllIdle /\ actionLog # <<>>) =>
        \A c \in DOMAIN connections :
            /\ connections[c].received # <<>>
            /\ LastMessage(c).type = "scoreboard_update"
            /\ \A i \in DOMAIN LastMessage(c).scoreboard :
                  LET e == LastMessage(c).scoreboard[i]
                  IN  /\ e.score = scoreTable[e.userId].score
                      /\ e.lastUpdated = scoreTable[e.userId].lastUpdated

\* the connections a message is sent to in this step
Receivers ==
    {c \in DOMAIN connections \cap DOMAIN connections' :
        connections'[c].received # connections[c].received}

\* C34: a broadcast reaches its receivers as one message put after all the
\* messages sent to them before, the same message for all of them
C34_BroadcastOrder ==
    [][\A c \in Receivers :
        /\ Len(connections'[c].received) = Len(connections[c].received) + 1
        /\ SubSeq(connections'[c].received, 1, Len(connections[c].received))
               = connections[c].received
        /\ \A d \in Receivers :
              connections'[d].received[Len(connections'[d].received)]
                  = connections'[c].received[Len(connections'[c].received)]]_vars

\* after their connection_status messages, two subscribers hold the same two
\* different broadcasts in the same order
C34_Witness ==
    /\ {"c1", "c2"} \subseteq DOMAIN connections
    /\ Len(connections["c1"].received) = 3
    /\ Len(connections["c2"].received) = 3
    /\ connections["c1"].received[2] # connections["c1"].received[3]
    /\ SubSeq(connections["c2"].received, 2, 3) = SubSeq(connections["c1"].received, 2, 3)

\* C35: when invalidateScoreboard or invalidateUserScore has returned, the
\* key is in neither Redis nor the in-process cache
C35_InvalidatedEverywhere ==
    [][\A p \in Procs :
        /\ (pc[p] = "us_inval_sb" /\ pc'[p] # pc[p])
              => SbKey \notin DOMAIN redis'.sb \cup DOMAIN memoryCache'.sb
        /\ (pc[p] = "us_inval_us" /\ pc'[p] # pc[p])
              => req[p].user.userId \notin DOMAIN redis'.us \cup DOMAIN memoryCache'.us]_vars

\* ------------------------------------------------- CacheService.getOrSet
\* the time to live, in seconds, the callers of getOrSet pass
AsideTtl == 30
\* the values fetchFunction can resolve to: the score of a new user, and
\* another score
FetchedValues == {0, 7}

\* JSON.stringify and JSON.parse on the fetched values
JSONStringify(v) == CASE v = 0 -> "0" [] v = 7 -> "7"
JSONParseValue(text) == CASE text = "0" -> 0 [] text = "7" -> 7

\* CacheService.getFromMemory(key): the entry's value, null when there is no
\* entry or Date.now() is past its expires
getFromMemory(fam, k) ==
    IF Has(memoryCache[fam], k) /\ ~(now > memoryCache[fam][k].expires)
    THEN [isNull |-> FALSE, value |-> memoryCache[fam][k].value]
    ELSE [isNull |-> TRUE, value |-> 0]
\* getFromMemory deletes the entry it found expired
MemoryAfterGet(fam, k) ==
    IF Has(memoryCache[fam], k) /\ now > memoryCache[fam][k].expires
    THEN MemoryDelete(fam, k)
    ELSE memoryCache

\* what getOrSet resolves to
Resolved(p, v) == Reply(p, [status |-> 200, code |-> "resolved", score |-> v])

\* a caller's getOrSet(key, fetchFunction, ttl) up to its first await: the
\* in-process cache is read, and a value that is true for if (value) is
\* returned
GetOrSetCall(p, k, v) ==
    /\ pc[p] = "idle"
    /\ \A q \in Procs : q < p => pc[q] # "idle"
    /\ started' = started + 1
    /\ memoryCache' = MemoryAfterGet("kv", k)
    /\ LET value == getFromMemory("kv", k)
           r == [NoReq EXCEPT !.route = "getOrSet", !.params = [userId |-> k],
                              !.fetched = v, !.cacheDown = ~redisUp]
       IN  IF ~value.isNull /\ TruthyNumber(value.value)
           THEN /\ resp' = [status |-> 200, code |-> "resolved", score |-> value.value,
                            req |-> Answered(r)] @@ NoResp
                /\ UNCHANGED <<pc, req, loc>>
           ELSE /\ pc' = [pc EXCEPT ![p] = "gos_redis"]
                /\ req' = [req EXCEPT ![p] = r]
                /\ UNCHANGED <<loc, resp>>
    /\ UNCHANGED <<dbVars, redis, redisUp, connections, now, bearers, issued, hist>>

\* value = await this.redis.get(key): a text is parsed, copied to the
\* in-process cache and returned; getOrSet has no catch block
GetOrSetRedis(p) ==
    /\ pc[p] = "gos_redis"
    /\ LET k == req[p].params.userId
       IN  IF ~redisUp
           THEN Thrown(p) /\ UNCHANGED memoryCache
           ELSE IF RedisHas("kv", k) /\ TruthyId(redis.kv[k].value)
           THEN LET parsedValue == JSONParseValue(redis.kv[k].value)
                IN  /\ memoryCache' = setInMemory("kv", k, parsedValue, AsideTtl * 1000)
                    /\ Resolved(p, parsedValue)
           ELSE /\ Goto(p, "gos_fetch", loc[p])
                /\ UNCHANGED memoryCache
    /\ UNCHANGED <<dbVars, redis, redisUp, connections, now, envVars, hist>>

\* value = await fetchFunction()
GetOrSetFetch(p) ==
    /\ pc[p] = "gos_fetch"
    /\ Goto(p, "gos_setex", [loc[p] EXCEPT !.cachedScore = req[p].fetched])
    /\ UNCHANGED <<dbVars, cacheVars, connections, now, envVars, hist>>

\* await this.redis.setex(key, ttl, JSON.stringify(value)); setInMemory;
\* return value
GetOrSetStore(p) ==
    /\ pc[p] = "gos_setex"
    /\ LET k == req[p].params.userId
           value == loc[p].cachedScore
       IN  IF ~redisUp
           THEN Thrown(p) /\ UNCHANGED <<redis, memoryCache>>
           ELSE /\ redis' = RedisSetex("kv", k, AsideTtl, JSONStringify(value))
                /\ memoryCache' = setInMemory("kv", k, value, AsideTtl * 1000)
                /\ Resolved(p, value)
    /\ UNCHANGED <<dbVars, redisUp, connections, now, envVars, hist>>

\* JSON.stringify of the session data, a text: the text within quotes
JSONStringifyText(t) == CASE t = "alice" -> "\"alice\""

\* CacheService.setSession(sessionId, data, ttl): redis.setex of the
\* serialised data, then setInMemory of the data itself; a Redis error is
\* caught and nothing is stored
SetSession(sessionId, data, ttl) ==
    /\ redis' = IF redisUp
                THEN RedisSetex("ss", sessionId, ttl, JSONStringifyText(data))
                ELSE redis
    /\ memoryCache' = IF redisUp THEN setInMemory("ss", sessionId, data, ttl * 1000)
                      ELSE memoryCache
    /\ UNCHANGED <<dbVars, redisUp, connections, now, procVars, envVars, hist>>

\* CacheService.disconnect(): redis.disconnect(), then memoryCache.clear();
\* the keys in Redis stay, and whether later calls to Redis fail depends on
\* the client
CacheDisconnect ==
    /\ redisUp' \in {redisUp, FALSE}
    /\ memoryCache' = [fam \in DOMAIN memoryCache |-> <<>>]
    /\ UNCHANGED <<dbVars, redis, connections, now, procVars, envVars, hist>>

\* the sessions the callers of setSession store
SessionIds == {"s1"}

\* callers of getOrSet for the score of one of two users
ClientAside(p) ==
    /\ started < MaxAsideRequests
    /\ \E k \in {"alice", "bob"}, v \in FetchedValues : GetOrSetCall(p, k, v)

TickAside == TickUpTo(MaxAsideTicks)

NextAside ==
    \/ \E p \in Procs : ClientAside(p)
    \/ \E p \in Procs : GetOrSetRedis(p)
    \/ \E p \in Procs : GetOrSetFetch(p)
    \/ \E p \in Procs : GetOrSetStore(p)
    \/ \E sessionId \in SessionIds : SetSession(sessionId, "alice", AsideTtl)
    \/ CacheDisconnect
    \/ TickAside

SpecAside == Init /\ [][NextAside]_vars

\* C36: getOrSet serves an unexpired in-process entry, whatever its value,
\* without going on to Redis or to fetchFunction; an expired one is not served
C36_ReadThrough ==
    [][\A p \in Procs :
        (pc[p] = "idle" /\ pc'[p] = "gos_redis")
           => LET k == req'[p].params.userId
              IN  ~(Has(memoryCache.kv, k) /\ now <= memoryCache.kv[k].expires)]_vars

\* C37: a connection leaves the subscriber set only when it is closed, broken
\* or failed a send; the event of a connection that is already removed leaves
\* the set as it is; a broadcast delivers exactly one message to every
\* connection it can send to, whatever it removes on the way
C37_SubscriberSet ==
    [][/\ \A c \in DOMAIN connections \ DOMAIN connections' :
              connections[c].readyState # WsOpen \/ connections[c].sendThrows
       /\ (started' # started /\ ~FrameHandled) => connections' = connections
       /\ FrameHandled =>
              /\ DOMAIN connections' = Sendable
              /\ \A c \in Sendable :
                    /\ Len(connections'[c].received) = Len(connections[c].received) + 1
                    /\ SubSeq(connections'[c].received, 1, Len(connections[c].received))
                          = connections[c].received]_vars

\* a broadcast removed a connection, and after the last frame the event of a
\* removed connection was handled while another connection stays subscribed
C37_Witness ==
    /\ hist.evicted # {}
    /\ hist.frame.seq > 0
    /\ started > hist.frame.seq
    /\ DOMAIN connections # {}
    /\ DOMAIN connections # {"c1", "c2", "c3"}

\* C38: the transaction step of an update whose identity has no row in
\* scores answers 400, and leaves no row in action_logs for the action id and
\* no row in scores for the identity
C38_OrphanUpdateFails ==
    [][\A p \in Procs :
        (/\ pc[p] = "tx_update"
         /\ pc'[p] # pc[p]
         /\ storeUp
         /\ ~Has(scoreTable, req[p].user.userId))
           => /\ pc'[p] = "idle"
              /\ resp'.status = 400
              /\ resp'.req.actionId = req[p].body.actionId
              /\ ~Has(scoreTable', req[p].user.userId)
              /\ \A i \in DOMAIN actionLog' :
                    actionLog'[i].actionId # req[p].body.actionId]_vars

\* carol holds a token and has no row in scores, and her update was answered
\* 400 because the row to update was not found
C38_Witness ==
    /\ "carol" \in bearers
    /\ "carol" \in userTable
    /\ ~Has(scoreTable, "carol")
    /\ "missing" \in hist.rolledBack
    /\ resp.req.route = "update"
    /\ resp.req.userId = "carol"
    /\ resp.status = 400
    /\ \A i \in DOMAIN actionLog : actionLog[i].actionId # resp.req.actionId

\* C39: while Redis is down, the limiter's read is followed by the increment
\* and the increment by the route's handler: no request is answered 429 by a
\* limiter step taken while the counter cannot be read or written
C39_LimiterFailsOpen ==
    [][\A p \in Procs :
        /\ (pc[p] = "rl_get" /\ pc'[p] # pc[p] /\ ~redisUp)
              => pc'[p] = "rl_incr" /\ resp' = resp
        /\ (pc[p] = "rl_incr" /\ pc'[p] # pc[p] /\ ~redisUp)
              => pc'[p] = RouteEntry(req[p].route) /\ resp' = resp]_vars

\* the counter of alice is at the maximum, Redis is down, and a request that
\* came in during the outage is in the handler, the eleventh to pass
C39_Witness ==
    /\ ~redisUp
    /\ RedisHas("rl", <<"score_update", "anonymous">>)
    /\ redis.rl[<<"score_update", "anonymous">>].value >= ScoreUpdateMaxRequests
    /\ \E p \in Procs : pc[p] = "us_find" /\ req[p].cacheDown
    /\ Has(hist.passes, <<"alice", 0>>)
    /\ hist.passes[<<"alice", 0>>] > ScoreUpdateMaxRequests

\* C40: a getTopScores call with a limit other than 10 takes one step, the
\* query: the cached ranking is neither read nor written, and what is
\* returned is the first limit rows of the table in ranking order
C40_LimitBypassesCache ==
    [][\A p \in Procs :
        (req[p].route = "topScores" /\ req[p].limit # TopLimit /\ pc'[p] # pc[p])
           => /\ pc[p] = "gts_db"
              /\ pc'[p] = "idle"
              /\ redis' = redis
              /\ memoryCache' = memoryCache
              /\ resp'.req.route = "topScores"
              /\ resp'.req.limit = req[p].limit
              /\ resp'.scoreboard \in
                    {Entries(Take(ids, req[p].limit)) : ids \in OrderedUserIds}]_vars

\* getTopScores(1) returned alice with her new score while the cached top 10
\* still holds the ranking from before her update
C40_Witness ==
    /\ resp.req.route = "topScores"
    /\ resp.req.limit = 1
    /\ Len(resp.scoreboard) = 1
    /\ resp.scoreboard[1].userId = "alice"
    /\ resp.scoreboard[1].score = scoreTable["alice"].score
    /\ resp.scoreboard[1].score > 0
    /\ RedisHas("sb", SbKey)
    /\ \A i \in DOMAIN redis.sb[SbKey].value : redis.sb[SbKey].value[i].score = 0
====
